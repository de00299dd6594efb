--------------------------- MODULE MembershipProofs ---------------------------
(***************************************************************************)
(* Proofs about Membership, for any people, pages, requests and inputs.    *)
(***************************************************************************)
EXTENDS Membership, SequenceTheorems, TLAPS

Place == {"idle", "require", "find", "tx", "recheck", "read", "announce", "done"}

(* The board and its log.                                                  *)
BoardTypes ==
  /\ account \subseteq Person
  /\ board \in {"none", "open", "deleted"}
  /\ role \in [Person -> Role \union {None}]
  /\ name \in Request \union {None}
  /\ log \in Seq(Line)
  /\ writes \in Nat

(* The requests.                                                           *)
RequestTypes ==
  /\ inp \in [Request -> Input \union {None}]
  /\ ans \in [Request -> Code \union {None}]
  /\ pc \in [Request -> Place]
  /\ asked \in [Request -> Nat]
  /\ old \in [Request -> Role \union {None}]
  /\ got \in [Request -> Roster \union {None}]
  /\ \A r \in Request : /\ pc[r] = "idle" <=> inp[r] = None
                        /\ pc[r] = "done" <=> ans[r] # None
                        /\ pc[r] = "announce" => got[r] # None

(* The pages and what is on its way to them.                               *)
PageTypes ==
  /\ shown \in [Page -> Roster \union {None}]
  /\ link \in [Page -> {"live", "down", "entering"}]
  /\ inbox \in [Page -> Seq([about : {"members", "name"}, roster : Roster])]
  /\ sent \in [{"members", "name"} -> Nat]
  /\ tidy \in BOOLEAN
  /\ faults \in 0 .. MaxFaults
  /\ \A p \in Page : /\ link[p] # "down" => shown[p] # None
                     /\ inbox[p] # <<>> => link[p] = "live"

(* The types, in three parts that different steps disturb.                 *)
LEMMA TypesSplit == TypeOK <=> BoardTypes /\ RequestTypes /\ PageTypes
BY DEF TypeOK, BoardTypes, RequestTypes, PageTypes, Place

(* A request under way knows what it was asked.                            *)
LEMMA InputKnown ==
  ASSUME TypeOK, NEW r \in Request, pc[r] # "idle"
  PROVE  /\ inp[r] \in Input /\ inp[r].actor \in Person /\ inp[r].target \in Person
         /\ inp[r].role \in Role /\ inp[r].op \in Op
BY DEF TypeOK, Input

(* What a read of the members gives.                                       *)
LEMMA NowIsRoster == TypeOK => Now \in Roster
BY DEF TypeOK, Now, Roster

(* Queues keep their type.                                                 *)
LEMMA AppendTyped ==
  ASSUME NEW S, NEW s \in Seq(S), NEW e \in S
  PROVE  Append(s, e) \in Seq(S)
OBVIOUS

(* The empty sequence is one of every set's.                               *)
LEMMA EmptyTyped == \A S : <<>> \in Seq(S)
OBVIOUS

(* A sequence's head and tail.                                             *)
LEMMA HeadTailTyped ==
  ASSUME NEW S, NEW s \in Seq(S), s # <<>>
  PROVE  Head(s) \in S /\ Tail(s) \in Seq(S)
OBVIOUS

(* A request that goes on, and one that is answered.                       *)
LEMMA GoesOn ==
  ASSUME RequestTypes, NEW r \in Request, NEW l \in Place \ {"idle", "done"}, Goto(r, l),
         pc[r] \notin {"idle", "done"}, l = "announce" => got'[r] # None,
         got' \in [Request -> Roster \union {None}], \A q \in Request : q # r => got'[q] = got[q],
         old' \in [Request -> Role \union {None}], UNCHANGED <<inp, ans, asked>>
  PROVE  RequestTypes'
BY DEF RequestTypes, Goto, Place

(* An answered request keeps the types.                                    *)
LEMMA IsAnswered ==
  ASSUME RequestTypes, NEW r \in Request, NEW code \in Code, Answer(r, code),
         pc[r] \notin {"idle", "done"},
         got' \in [Request -> Roster \union {None}], \A q \in Request : q # r => got'[q] = got[q],
         old' \in [Request -> Role \union {None}], UNCHANGED <<inp, asked>>
  PROVE  RequestTypes'
BY NoneAssumption DEF RequestTypes, Answer, Goto, Place

(* The types hold at the start.                                            *)
LEMMA TypeInit == Init => TypeOK
<1> SUFFICES ASSUME Init PROVE TypeOK
  OBVIOUS
<1> USE StartAssumption, NoneAssumption
<1>1. BoardTypes
  BY DEF Init, BoardTypes
<1>2. RequestTypes
  BY DEF Init, RequestTypes, Place
<1>3. Now \in Roster
  BY <1>1 DEF BoardTypes, Now, Roster
<1>4. PageTypes
  BY <1>3 DEF Init, PageTypes
<1> QED
  BY <1>1, <1>2, <1>4, TypesSplit

(* Every step keeps the types.                                             *)
LEMMA TypeStep == TypeOK /\ [Next]_vars => TypeOK'
<1> SUFFICES ASSUME TypeOK, [Next]_vars PROVE TypeOK'
  OBVIOUS
<1>00. BoardTypes' /\ RequestTypes' /\ PageTypes' => TypeOK'
  BY DEF TypeOK, BoardTypes, RequestTypes, PageTypes, Place
<1>0. BoardTypes /\ RequestTypes /\ PageTypes
  BY TypesSplit
<1>1. ASSUME NEW r \in Request, Ask(r) PROVE TypeOK'
  <2>1. RequestTypes'
    BY <1>0, <1>1, OfferedAssumption, NoneAssumption DEF Ask, RequestTypes, BoardTypes, Goto, Place
  <2>2. BoardTypes' /\ PageTypes'
    BY <1>0, <1>1 DEF Ask, db, pages, BoardTypes, PageTypes
  <2> QED
    BY <2>1, <2>2, <1>00
<1>2. ASSUME NEW r \in Request, Require(r) \/ FindAccount(r) \/ FindMember(r) \/ Recheck(r) PROVE TypeOK'
  <2>1. BoardTypes' /\ PageTypes'
    BY <1>0, <1>2 DEF Require, FindAccount, FindMember, Recheck, db, pages, BoardTypes, PageTypes
  <2>2. pc[r] \in {"require", "find", "recheck"}
    BY <1>2 DEF Require, FindAccount, FindMember, Recheck
  <2>3. got' = got /\ UNCHANGED <<inp, asked>>
    BY <1>2 DEF Require, FindAccount, FindMember, Recheck
  <2>4. old' \in [Request -> Role \union {None}]
    BY <1>0, <1>2, InputKnown DEF Require, FindAccount, FindMember, Recheck, RequestTypes, BoardTypes
  <2>5. \/ \E code \in Code : Answer(r, code)
        \/ UNCHANGED ans /\ \E l \in {"find", "tx", "read", "recheck"} : Goto(r, l)
    BY <1>2 DEF Require, FindAccount, FindMember, Recheck, Code
  <2>6. RequestTypes'
    BY <1>0, <2>2, <2>3, <2>4, <2>5, GoesOn, IsAnswered DEF RequestTypes, Place
  <2> QED
    BY <2>1, <2>6, <1>00
<1>3. ASSUME NEW r \in Request, ReadRoster(r) PROVE TypeOK'
  <2>1. BoardTypes' /\ PageTypes'
    BY <1>0, <1>3 DEF ReadRoster, db, pages, BoardTypes, PageTypes
  <2>2. /\ pc[r] = "read" /\ got' = [got EXCEPT ![r] = Now] /\ UNCHANGED <<inp, asked, old>>
        /\ Answer(r, "OK") \/ (UNCHANGED ans /\ Goto(r, "announce"))
    BY <1>3 DEF ReadRoster
  <2>3. got' \in [Request -> Roster \union {None}] /\ got'[r] # None
    BY <1>0, <2>2, NowIsRoster, NoneAssumption DEF RequestTypes
  <2>4. RequestTypes'
    BY <1>0, <2>2, <2>3, GoesOn, IsAnswered DEF RequestTypes, Place, Code
  <2> QED
    BY <2>1, <2>4, <1>00
<1>4. ASSUME NEW r \in Request, ReadFails(r) \/ TxFails(r) \/ WriteCard(r) PROVE TypeOK'
  <2>1. /\ pc[r] \notin {"idle", "done"} /\ UNCHANGED <<db, inp, asked, old, got, pages, sent>>
        /\ \E code \in Code : Answer(r, code)
        /\ faults' = faults \/ (faults < MaxFaults /\ faults' = faults + 1)
    BY <1>4 DEF ReadFails, TxFails, WriteCard, Code
  <2>4. tidy' \in BOOLEAN
    BY <1>0, <1>4 DEF ReadFails, TxFails, WriteCard, PageTypes
  <2>5. faults' \in 0 .. MaxFaults
    BY <1>0, <2>1, StartAssumption DEF PageTypes
  <2>2. BoardTypes' /\ PageTypes'
    BY <1>0, <2>1, <2>4, <2>5 DEF db, pages, BoardTypes, PageTypes
  <2>3. RequestTypes'
    BY <1>0, <2>1, IsAnswered DEF RequestTypes
  <2> QED
    BY <2>2, <2>3, <1>00
<1>5. ASSUME NEW r \in Request, Signup(r) \/ CreateBoard(r) \/ DeleteBoard(r) PROVE TypeOK'
  <2>1. /\ pc[r] = "tx" /\ \E code \in Code : Answer(r, code)
        /\ UNCHANGED <<inp, asked, old, got, pages, sent, tidy, faults>>
    BY <1>5 DEF Signup, CreateBoard, DeleteBoard, Code
  <2>2. inp[r].actor \in Person
    BY <2>1, InputKnown
  <2>3. BoardTypes'
    <3>1. account' \subseteq Person /\ board' \in {"none", "open", "deleted"} /\ writes' \in Nat
      BY <1>0, <1>5, <2>2 DEF Signup, CreateBoard, DeleteBoard, Written, BoardTypes
    <3>2. role' \in [Person -> Role \union {None}] /\ name' \in Request \union {None}
      BY <1>0, <1>5 DEF Signup, CreateBoard, DeleteBoard, BoardTypes, Role
    <3>3. log' \in Seq(Line)
      <4>1. log' = log \/ log' = <<>>
        BY <1>5 DEF Signup, CreateBoard, DeleteBoard
      <4> QED
        BY <1>0, <4>1, EmptyTyped DEF BoardTypes
    <3> QED
      BY <3>1, <3>2, <3>3 DEF BoardTypes
  <2>4. PageTypes'
    BY <1>0, <2>1 DEF pages, PageTypes
  <2>5. RequestTypes'
    BY <1>0, <2>1, IsAnswered DEF RequestTypes
  <2> QED
    BY <2>3, <2>4, <2>5, <1>00
<1>6. ASSUME NEW r \in Request, AddMember(r) \/ ChangeMember(r) PROVE TypeOK'
  <2>1. /\ pc[r] = "tx" /\ Goto(r, "recheck")
        /\ UNCHANGED <<account, board, name, inp, ans, asked, old, got, pages, sent, tidy, faults>>
    BY <1>6 DEF AddMember, ChangeMember
  <2>2. inp[r].target \in Person /\ inp[r].role \in Role
    BY <2>1, InputKnown
  <2>3. /\ role' \in [Person -> Role \union {None}] /\ writes' = writes + 1
        /\ log' \in Seq(Line)
    <3>1. ASSUME NEW kind \in {"MEMBER_ADDED", "MEMBER_ROLE_CHANGED", "MEMBER_REMOVED"},
                 NEW was \in Role \union {None}, NEW now \in Role \union {None}
          PROVE  Logged(kind, r, was, now) \in Seq(Line)
      BY <1>0, <2>2 DEF Logged, BoardTypes, Line
    <3>2. CASE AddMember(r)
      BY <1>0, <2>2, <3>1, <3>2 DEF AddMember, Written, BoardTypes
    <3>3. CASE ChangeMember(r)
      <4> DEFINE now == IF inp[r].op = "update" THEN inp[r].role ELSE None
      <4>1. now \in Role \union {None} /\ old[r] \in Role \union {None}
        BY <1>0, <2>2 DEF RequestTypes
      <4>2. role' \in [Person -> Role \union {None}]
        BY <1>0, <2>2, <3>3, <4>1 DEF ChangeMember, BoardTypes
      <4> QED
        BY <3>1, <3>3, <4>1, <4>2 DEF ChangeMember, Written
    <3> QED
      BY <1>6, <3>2, <3>3
  <2>4. BoardTypes'
    BY <1>0, <2>1, <2>3 DEF BoardTypes
  <2>5. PageTypes'
    BY <1>0, <2>1 DEF pages, PageTypes
  <2>6. RequestTypes'
    BY <1>0, <2>1, GoesOn DEF RequestTypes, Place
  <2> QED
    BY <2>4, <2>5, <2>6, <1>00
<1>7. ASSUME NEW r \in Request, RenameBoard(r) PROVE TypeOK'
  <2>1. /\ pc[r] = "tx" /\ Goto(r, "announce") /\ name' = r /\ writes' = writes + 1
        /\ got' = [got EXCEPT ![r] = [members |-> role, name |-> r, at |-> writes + 1]]
        /\ UNCHANGED <<account, board, role, log, inp, ans, asked, old, pages, sent, tidy, faults>>
    BY <1>7 DEF RenameBoard, Written
  <2>2. writes + 1 \in Nat
    BY <1>0 DEF BoardTypes
  <2>3. [members |-> role, name |-> r, at |-> writes + 1] \in Roster
    BY <1>0, <2>2 DEF BoardTypes, Roster
  <2>4. got' \in [Request -> Roster \union {None}] /\ got'[r] # None
    BY <1>0, <2>1, <2>3, NoneAssumption DEF RequestTypes
  <2>5. BoardTypes' /\ PageTypes'
    <3>1. BoardTypes'
      BY <1>0, <2>1, <2>2 DEF BoardTypes
    <3>2. PageTypes'
      BY <1>0, <2>1 DEF pages, PageTypes
    <3> QED
      BY <3>1, <3>2
  <2>6. RequestTypes'
    BY <1>0, <2>1, <2>4, GoesOn DEF RequestTypes, Place
  <2> QED
    BY <2>5, <2>6, <1>00
<1>8. ASSUME NEW r \in Request, Announce(r) PROVE TypeOK'
  <2> DEFINE about == IF inp[r].op = "rename" THEN "name" ELSE "members"
             m == [about |-> about, roster |-> got[r]]
  <2>1. /\ pc[r] = "announce" /\ Answer(r, "OK")
        /\ UNCHANGED <<db, inp, asked, old, got, shown, link>>
    BY <1>8 DEF Announce
  <2>2. RequestTypes' /\ BoardTypes'
    BY <1>0, <2>1, IsAnswered DEF RequestTypes, BoardTypes, db, Code
  <2>3. got[r] \in Roster /\ m \in [about : {"members", "name"}, roster : Roster]
    BY <1>0, <2>1 DEF RequestTypes
  <2>4. CASE inbox' = Told(m) /\ sent' = [sent EXCEPT ![about] = IF @ < got[r].at THEN got[r].at ELSE @]
             /\ tidy' = (tidy /\ sent[about] <= got[r].at) /\ UNCHANGED faults
    <3>1. ASSUME NEW p \in Page
          PROVE  /\ inbox'[p] \in Seq([about : {"members", "name"}, roster : Roster])
                 /\ inbox'[p] # <<>> => link[p] = "live"
      <4>1. inbox'[p] = IF link[p] = "live" THEN Append(inbox[p], m) ELSE inbox[p]
        BY <2>4 DEF Told
      <4>2. inbox[p] \in Seq([about : {"members", "name"}, roster : Roster])
        BY <1>0 DEF PageTypes
      <4> QED
        <5>1. Append(inbox[p], m) \in Seq([about : {"members", "name"}, roster : Roster])
          BY <2>3, <4>2, AppendTyped
        <5>2. inbox[p] # <<>> => link[p] = "live"
          BY <1>0 DEF PageTypes
        <5> QED
          BY <4>1, <4>2, <5>1, <5>2
    <3>2. inbox' \in [Page -> Seq([about : {"members", "name"}, roster : Roster])]
      BY <2>4, <3>1 DEF Told
    <3>3. sent' \in [{"members", "name"} -> Nat] /\ tidy' \in BOOLEAN
      BY <1>0, <2>3, <2>4 DEF PageTypes, Roster
    <3> QED
      BY <1>0, <2>1, <2>2, <2>4, <3>1, <3>2, <3>3, <1>00 DEF PageTypes
  <2>5. CASE faults < MaxFaults /\ faults' = faults + 1 /\ tidy' = FALSE /\ UNCHANGED <<inbox, sent>>
    <3>1. PageTypes'
      <4>1. faults' \in 0 .. MaxFaults
        BY <1>0, <2>5, StartAssumption DEF PageTypes
      <4> QED
        BY <1>0, <2>1, <2>5, <4>1 DEF PageTypes
    <3> QED
      BY <2>2, <3>1, <1>00
  <2> QED
    BY <1>8, <2>4, <2>5 DEF Announce, Announced
<1>9. ASSUME NEW p \in Page, PageStep(p) PROVE TypeOK'
  <2>1. UNCHANGED <<db, inp, ans, pc, asked, old, got>>
    BY <1>9 DEF PageStep, Deliver, Drop, JoinRead, JoinEnter
  <2>2. RequestTypes' /\ BoardTypes'
    BY <1>0, <2>1 DEF RequestTypes, BoardTypes, db
  <2>3. CASE Deliver(p)
    <3>1. /\ inbox[p] # <<>> /\ inbox[p] \in Seq([about : {"members", "name"}, roster : Roster])
          /\ link[p] = "live" /\ shown[p] \in Roster
      BY <1>0, <2>3 DEF Deliver, PageTypes
    <3>2. Head(inbox[p]) \in [about : {"members", "name"}, roster : Roster]
          /\ Tail(inbox[p]) \in Seq([about : {"members", "name"}, roster : Roster])
      BY <3>1, HeadTailTyped
    <3>3. /\ [shown[p] EXCEPT !.name = Head(inbox[p]).roster.name] \in Roster
          /\ [shown[p] EXCEPT !.members = Head(inbox[p]).roster.members] \in Roster
      BY <3>1, <3>2 DEF Roster
    <3>4. /\ shown' \in [Page -> Roster \union {None}] /\ shown'[p] \in Roster
          /\ \A q \in Page : q # p => shown'[q] = shown[q]
      BY <1>0, <2>3, <3>3 DEF Deliver, PageTypes
    <3>5. /\ inbox' \in [Page -> Seq([about : {"members", "name"}, roster : Roster])]
          /\ \A q \in Page : q # p => inbox'[q] = inbox[q]
          /\ UNCHANGED <<link, sent, tidy, faults>>
      BY <1>0, <2>3, <3>2 DEF Deliver, PageTypes
    <3>6. PageTypes'
      BY <1>0, <3>1, <3>4, <3>5, NoneAssumption DEF PageTypes
    <3> QED
      BY <2>2, <3>6, <1>00
  <2>4. CASE Drop(p)
    <3>1. PageTypes'
      <4>1. faults' \in 0 .. MaxFaults
        BY <1>0, <2>4, StartAssumption DEF Drop, PageTypes
      <4>2. inbox' \in [Page -> Seq([about : {"members", "name"}, roster : Roster])]
        <5>1. inbox \in [Page -> Seq([about : {"members", "name"}, roster : Roster])]
          BY <1>0 DEF PageTypes
        <5>2. inbox' = [inbox EXCEPT ![p] = <<>>]
          BY <2>4 DEF Drop
        <5> QED
          BY <5>1, <5>2, EmptyTyped
      <4> QED
        BY <1>0, <2>4, <4>1, <4>2 DEF Drop, PageTypes
    <3> QED
      BY <2>2, <3>1, <1>00
  <2>5. CASE JoinRead(p)
    <3>1. PageTypes'
      BY <1>0, <2>5, NowIsRoster, NoneAssumption DEF JoinRead, PageTypes
    <3> QED
      BY <2>2, <3>1, <1>00
  <2>6. CASE JoinEnter(p)
    <3>1. PageTypes'
      BY <1>0, <2>6 DEF JoinEnter, PageTypes
    <3> QED
      BY <2>2, <3>1, <1>00
  <2> QED
    BY <1>9, <2>3, <2>4, <2>5, <2>6 DEF PageStep
<1>10. CASE UNCHANGED vars
  BY <1>10 DEF vars, TypeOK
<1> QED
  BY <1>1, <1>2, <1>3, <1>4, <1>5, <1>6, <1>7, <1>8, <1>9, <1>10 DEF Next, Serve, Transaction

(* Requests and pages keep to their types, and their parts to one another. *)
THEOREM MembershipTypes == Spec => []TypeOK
BY TypeInit, TypeStep, PTL DEF Spec

-----------------------------------------------------------------------------
(* The log and the roster.                                                 *)

(* Who has lines has a last one.                                           *)
LastLine ==
  \A p \in Person, n \in 0 .. Len(log) :
    Lines(p, n) # {} => \E k \in Lines(p, n) : \A l \in Lines(p, n) : l <= k

AddedTo(p) == \E k \in Lines(p, Len(log)) : log[k].kind = "MEMBER_ADDED"

(* There are members and lines about them only while there is a board.     *)
Story ==
  /\ LastLine
  /\ board # "open" => log = <<>> /\ \A p \in Person : role[p] = None
  /\ LogExplainsRoster
  /\ OwnerKeepsBoard

(* r has been found to have the role that it needs, or must have been.     *)
Through(r) ==
  /\ inp[r] # None /\ inp[r].op \in DOMAIN Needs
  /\ pc[r] \in {"find", "tx", "recheck", "read", "announce"} \/ ans[r] = "OK"

Permitted(r) ==
  \E n \in asked[r] .. Len(log) :
    \E x \in Role : x = RoleAfter(inp[r].actor, n) /\ Needs[inp[r].op] \in Matrix[x]

(* Which requests are where; one that is about to update a role has seen   *)
(* that it is another one.                                                 *)
InPlace(r) ==
  /\ pc[r] = "require" => inp[r].op \in DOMAIN Needs
  /\ pc[r] \in {"find", "recheck", "read"} => inp[r].op \in {"add", "update", "remove"}
  /\ pc[r] = "announce" => inp[r].op \in {"add", "update", "remove", "rename"}
  /\ pc[r] = "tx" /\ inp[r].op = "update" => old[r] # inp[r].role

(* It was, then; and one that is about to change its target's role has     *)
(* seen that this is not the owner's, or not any more.                     *)
Honest(r) ==
  /\ board # "deleted" => asked[r] <= Len(log)
  /\ Through(r) => board # "none" /\ (board = "open" => Permitted(r))
  /\ pc[r] = "tx" /\ inp[r].op \in {"update", "remove"} /\ inp[r].target = Creator
       => board # "open" \/ AddedTo(Creator)

MemberInv == TypeOK /\ Story /\ \A r \in Request : InPlace(r) /\ Honest(r)

(* A new line leaves what the earlier ones say, and says its own.          *)
LEMMA LineAdded ==
  ASSUME TypeOK, LastLine, NEW new \in Line, log' = Append(log, new),
         NEW m \in Nat, m = Len(log)
  PROVE  /\ Len(log') = m + 1 /\ LastLine'
         /\ \A p \in Person, n \in 0 .. m : RoleAfter(p, n)' = RoleAfter(p, n)
         /\ \A p \in Person :
              IF new.who = p
                THEN /\ Lines(p, m + 1)' = Lines(p, m) \union {m + 1}
                     /\ log'[m + 1].kind = new.kind /\ RoleAfter(p, m + 1)' = new.now
                ELSE Lines(p, m + 1)' = Lines(p, m) /\ RoleAfter(p, m + 1)' = RoleAfter(p, m)
         /\ \A p \in Person : AddedTo(p) => AddedTo(p)'
<1>1. /\ log \in Seq(Line) /\ Len(log) = m /\ Len(log') = m + 1
      /\ \A k \in 1 .. m : log'[k] = log[k]
      /\ log'[m + 1] = new
  BY DEF TypeOK
<1>2. \A p \in Person, n \in 0 .. m : Lines(p, n)' = Lines(p, n)
  BY <1>1 DEF Lines
<1>3. ASSUME NEW p \in Person, NEW n \in 0 .. m PROVE RoleAfter(p, n)' = RoleAfter(p, n)
  <2>1. CASE Lines(p, n) = {}
    BY <1>2, <2>1 DEF RoleAfter
  <2>2. CASE Lines(p, n) # {}
    <3> DEFINE last == CHOOSE k \in Lines(p, n) : \A l \in Lines(p, n) : l <= k
    <3>1. last \in Lines(p, n)
      BY <2>2 DEF LastLine
    <3>2. log'[last] = log[last]
      BY <1>1, <3>1 DEF Lines
    <3>3. RoleAfter(p, n) = log[last].now
      BY <2>2 DEF RoleAfter
    <3>4. RoleAfter(p, n)' = log'[last].now
      BY <1>2, <2>2 DEF RoleAfter
    <3> QED
      BY <3>2, <3>3, <3>4
  <2> QED
    BY <2>1, <2>2
<1>4. ASSUME NEW p \in Person, new.who # p
      PROVE  /\ Lines(p, m + 1)' = Lines(p, m)
             /\ RoleAfter(p, m + 1)' = RoleAfter(p, m)
  <2>1. Lines(p, m + 1)' = Lines(p, m)
    BY <1>1, <1>4 DEF Lines
  <2>2. Lines(p, m)' = Lines(p, m)
    BY <1>2
  <2> DEFINE Final(about) == CHOOSE k \in about : \A l \in about : l <= k
             Says(about) == IF about = {} THEN Start[p] ELSE log'[Final(about)].now
  <2>3. RoleAfter(p, m + 1)' = Says(Lines(p, m + 1)') /\ RoleAfter(p, m)' = Says(Lines(p, m)')
    BY DEF RoleAfter
  <2>4. RoleAfter(p, m + 1)' = RoleAfter(p, m)'
    <3> HIDE DEF Says
    <3> QED
      BY <2>1, <2>2, <2>3
  <2> QED
    BY <1>3, <2>1, <2>4
<1>5. ASSUME NEW p \in Person, new.who = p
      PROVE  /\ Lines(p, m + 1)' = Lines(p, m) \union {m + 1}
             /\ RoleAfter(p, m + 1)' = new.now
  <2> DEFINE n == m + 1
             about == Lines(p, m) \union {n}
  <2>1. Lines(p, m + 1)' = about
    BY <1>1, <1>5 DEF Lines
  <2>2. n \in about /\ \A l \in about : l \in Nat /\ l <= n
    BY <1>1 DEF Lines
  <2>3. (CHOOSE k \in about : \A l \in about : l <= k) = n
    BY <1>1, <2>2
  <2>4. RoleAfter(p, m + 1)' = log'[CHOOSE k \in about : \A l \in about : l <= k].now
    BY <2>1 DEF RoleAfter
  <2> QED
    BY <1>1, <2>1, <2>3, <2>4
<1>6. LastLine'
  <2> SUFFICES ASSUME NEW p \in Person, NEW n \in 0 .. Len(log'), Lines(p, n)' # {}
               PROVE  \E k \in Lines(p, n)' : \A l \in Lines(p, n)' : l <= k
    BY DEF LastLine
  <2>1. CASE n \in 0 .. m
    BY <1>2, <2>1 DEF LastLine
  <2>2. CASE n = m + 1 /\ new.who # p
    BY <1>1, <1>4, <2>2 DEF LastLine
  <2>3. CASE n = m + 1 /\ new.who = p
    <3>1. \A l \in Lines(p, n)' : l \in 1 .. n
      BY <1>1 DEF Lines
    <3>2. n \in Lines(p, n)'
      BY <1>5, <2>3
    <3> QED
      BY <1>1, <3>1, <3>2
  <2> QED
    BY <1>1, <2>1, <2>2, <2>3
<1>7. ASSUME NEW p \in Person, AddedTo(p) PROVE AddedTo(p)'
  <2>1. PICK k \in Lines(p, m) : log[k].kind = "MEMBER_ADDED"
    BY <1>7 DEF AddedTo
  <2>2. k \in Lines(p, m + 1)' /\ log'[k] = log[k]
    BY <1>1, <2>1, <1>4, <1>5 DEF Lines
  <2> QED
    BY <1>1, <2>1, <2>2 DEF AddedTo
<1> QED
  BY <1>1, <1>3, <1>4, <1>5, <1>6, <1>7

(* A step that leaves the members alone, and one that changes one of them. *)
LEMMA StoryKept ==
  ASSUME Story, UNCHANGED <<board, role, log>>
  PROVE  Story'
<1>1. LastLine'
  <2>1. \A p \in Person, n \in 0 .. Len(log) :
          Lines(p, n) # {} => \E k \in Lines(p, n) : \A l \in Lines(p, n) : l <= k
    BY DEF Story, LastLine
  <2>2. \A p, n : Lines(p, n)' = Lines(p, n)
    BY DEF Lines
  <2> QED
    BY <2>1, <2>2 DEF LastLine
<1>2. LogExplainsRoster'
  <2>1. \A p \in Person : /\ RoleAfter(p, Len(log))' = RoleAfter(p, Len(log))
                          /\ Lines(p, Len(log))' = Lines(p, Len(log))
    BY DEF RoleAfter, Lines
  <2> QED
    BY <2>1 DEF Story, LogExplainsRoster
<1>3. OwnerKeepsBoard'
  BY DEF Story, OwnerKeepsBoard, Lines
<1> QED
  BY <1>1, <1>2, <1>3 DEF Story

(* A line in the log about the member whose role changes keeps the story.  *)
LEMMA StoryGrows ==
  ASSUME TypeOK, Story, board = "open", UNCHANGED board,
         NEW new \in Line, log' = Append(log, new),
         role' = [role EXCEPT ![new.who] = new.now],
         new.who = Creator => new.kind = "MEMBER_ADDED" \/ AddedTo(Creator)
  PROVE  Story'
<1>1. PICK m \in Nat : m = Len(log)
  BY DEF TypeOK
<1>2. /\ Len(log') = m + 1 /\ LastLine' /\ new.who \in Person
      /\ \A p \in Person :
           IF new.who = p
             THEN /\ Lines(p, m + 1)' = Lines(p, m) \union {m + 1}
                  /\ log'[m + 1].kind = new.kind /\ RoleAfter(p, m + 1)' = new.now
             ELSE Lines(p, m + 1)' = Lines(p, m) /\ RoleAfter(p, m + 1)' = RoleAfter(p, m)
      /\ \A p \in Person : AddedTo(p) => AddedTo(p)'
  BY <1>1, LineAdded DEF Story, Line
<1>3. role'[new.who] = new.now /\ \A p \in Person : p # new.who => role'[p] = role[p]
  BY <1>2 DEF TypeOK
<1>4. LogExplainsRoster'
  <2> SUFFICES ASSUME NEW p \in Person
               PROVE  IF Lines(p, m + 1)' # {} THEN role'[p] = RoleAfter(p, m + 1)'
                      ELSE role'[p] = Start[p] \/ (role'[p] = None /\ p # Creator)
    BY <1>2 DEF LogExplainsRoster
  <2>1. CASE p = new.who
    BY <1>2, <1>3, <2>1
  <2>2. CASE p # new.who
    <3>1. IF Lines(p, m) # {} THEN role[p] = RoleAfter(p, m)
          ELSE role[p] = Start[p] \/ (role[p] = None /\ p # Creator)
      BY <1>1 DEF Story, LogExplainsRoster
    <3> QED
      BY <1>2, <1>3, <2>2, <3>1
  <2> QED
    BY <2>1, <2>2
<1>5. OwnerKeepsBoard'
  <2>1. CASE new.who = Creator /\ new.kind = "MEMBER_ADDED"
    <3>1. m + 1 \in Lines(Creator, m + 1)' /\ log'[m + 1].kind = "MEMBER_ADDED"
      BY <1>2, <2>1
    <3> QED
      BY <1>2, <3>1 DEF OwnerKeepsBoard
  <2>2. CASE AddedTo(Creator)
    BY <1>2, <2>2, StartAssumption DEF OwnerKeepsBoard, AddedTo
  <2>3. CASE new.who # Creator /\ role[Creator] = "OWNER"
    BY <1>3, <2>3, StartAssumption DEF OwnerKeepsBoard
  <2> QED
    BY <2>1, <2>2, <2>3 DEF Story, OwnerKeepsBoard, AddedTo
<1> QED
  BY <1>2, <1>4, <1>5 DEF Story

(* What another request does leaves q where it was.                        *)
LEMMA HonestKept ==
  ASSUME NEW q \in Request, Honest(q), UNCHANGED <<board, role, log>>, pc'[q] = pc[q],
         ans'[q] = ans[q], inp'[q] = inp[q], asked'[q] = asked[q]
  PROVE  Honest(q)'
BY DEF Honest, Through, Permitted, AddedTo, RoleAfter, Lines

(* A longer log leaves what a request has done honest.                     *)
LEMMA HonestGrows ==
  ASSUME TypeOK, Story, board = "open", UNCHANGED board, NEW new \in Line, log' = Append(log, new),
         NEW q \in Request, Honest(q), pc[q] # "idle" => inp[q].actor \in Person,
         inp'[q] = inp[q], asked'[q] = asked[q],
         Through(q)' => Through(q), pc'[q] = "tx" => pc[q] = "tx"
  PROVE  Honest(q)'
<1>1. PICK m \in Nat : m = Len(log)
  BY DEF TypeOK
<1>2. /\ Len(log') = m + 1
      /\ \A p \in Person, n \in 0 .. m : RoleAfter(p, n)' = RoleAfter(p, n)
      /\ \A p \in Person : AddedTo(p) => AddedTo(p)'
  BY <1>1, LineAdded DEF Story
<1>3. asked[q] \in Nat /\ asked[q] <= m
  BY <1>1 DEF TypeOK, Honest
<1>4. ASSUME Through(q)' PROVE Permitted(q)'
  <2>1. Permitted(q) /\ inp[q].actor \in Person
    BY <1>4, NoneAssumption DEF Honest, Through, TypeOK
  <2>2. PICK n \in asked[q] .. m :
          \E x \in Role : x = RoleAfter(inp[q].actor, n) /\ Needs[inp[q].op] \in Matrix[x]
    BY <1>1, <2>1 DEF Permitted
  <2>3. n \in 0 .. m /\ n \in asked[q] .. (m + 1)
    BY <1>3
  <2> QED
    BY <1>2, <2>1, <2>2, <2>3 DEF Permitted
<1> QED
  BY <1>1, <1>2, <1>3, <1>4, StartAssumption DEF Honest

(* The invariant holds at the start.                                       *)
LEMMA MemberInit == Init => MemberInv
<1> SUFFICES ASSUME Init PROVE MemberInv
  OBVIOUS
<1>1. LastLine /\ log = <<>> /\ \A p \in Person : Lines(p, Len(log)) = {}
  BY DEF Init, LastLine, Lines
<1>2. Story
  BY <1>1, StartAssumption, NoneAssumption
     DEF Init, Story, LogExplainsRoster, OwnerKeepsBoard
<1>3. \A r \in Request : InPlace(r) /\ Honest(r)
  BY <1>1, NoneAssumption DEF Init, InPlace, Honest, Through, Code
<1> QED
  BY <1>2, <1>3, TypeInit DEF MemberInv

(* A request that was permitted stays so while the log stands.             *)
LEMMA PermittedKept ==
  ASSUME NEW r \in Request, Permitted(r), log' = log, inp'[r] = inp[r], asked'[r] = asked[r]
  PROVE  Permitted(r)'
<1>1. \A p, n : RoleAfter(p, n)' = RoleAfter(p, n)
  BY DEF RoleAfter, Lines
<1> QED
  BY <1>1 DEF Permitted

(* A request goes on, and the board is as it was: what it has been found   *)
(* to be allowed it still is.                                              *)
LEMMA HonestGoesOn ==
  ASSUME NEW r \in Request, Honest(r), Through(r), UNCHANGED <<board, role, log>>,
         inp'[r] = inp[r], asked'[r] = asked[r],
         pc'[r] = "tx" => inp[r].op \notin {"update", "remove"} \/ inp[r].target # Creator
                          \/ board # "open" \/ AddedTo(Creator)
  PROVE  Honest(r)'
<1>1. Permitted(r) => Permitted(r)'
  BY PermittedKept
<1>2. AddedTo(Creator) => AddedTo(Creator)'
  BY DEF AddedTo, Lines
<1> QED
  BY <1>1, <1>2 DEF Honest, Through

(* What the steps of r do to the other requests.                           *)
LEMMA Others ==
  ASSUME TypeOK, NEW r \in Request, Serve(r) \/ Ask(r), NEW q \in Request, q # r
  PROVE  pc'[q] = pc[q] /\ ans'[q] = ans[q] /\ inp'[q] = inp[q] /\ asked'[q] = asked[q]
<1>1. CASE Ask(r)
  BY <1>1 DEF Ask, Goto, TypeOK
<1>2. CASE Require(r)
  BY <1>2 DEF Require, Answer, Goto, TypeOK
<1>3. CASE FindAccount(r) \/ FindMember(r)
  BY <1>3 DEF FindAccount, FindMember, Answer, Goto, TypeOK
<1>4. CASE Signup(r) \/ CreateBoard(r) \/ DeleteBoard(r) \/ WriteCard(r) \/ TxFails(r)
  BY <1>4 DEF Signup, CreateBoard, DeleteBoard, WriteCard, TxFails, Answer, Goto, TypeOK
<1>5. CASE AddMember(r) \/ ChangeMember(r) \/ RenameBoard(r)
  BY <1>5 DEF AddMember, ChangeMember, RenameBoard, Goto, TypeOK
<1>6. CASE Recheck(r) \/ ReadRoster(r) \/ ReadFails(r) \/ Announce(r)
  BY <1>6 DEF Recheck, ReadRoster, ReadFails, Announce, Answer, Goto, TypeOK
<1> QED
  BY <1>1, <1>2, <1>3, <1>4, <1>5, <1>6 DEF Serve, Transaction

(* Serving a request leaves what the others have read alone.               *)
LEMMA OldKept ==
  ASSUME TypeOK, NEW r \in Request, Serve(r) \/ Ask(r), NEW q \in Request, q # r
  PROVE  old'[q] = old[q] /\ got'[q] = got[q]
BY DEF Ask, Serve, Transaction, Require, FindAccount, FindMember, Signup, CreateBoard, DeleteBoard,
   WriteCard, TxFails, AddMember, ChangeMember, RenameBoard, Recheck, ReadRoster, ReadFails,
   Announce, TypeOK

(* A request that moves on comes to a place its operation has.             *)
LEMMA InPlaceStep ==
  ASSUME TypeOK, NEW r \in Request, Serve(r) \/ Ask(r), InPlace(r)
  PROVE  InPlace(r)'
<1>1. CASE Ask(r)
  BY <1>1, OfferedAssumption DEF Ask, Goto, TypeOK, InPlace, Input, Op, Needs
<1>2. CASE Require(r)
  BY <1>2 DEF Require, Answer, Goto, TypeOK, InPlace
<1>3. CASE FindAccount(r) \/ FindMember(r)
  BY <1>3 DEF FindAccount, FindMember, Answer, Goto, TypeOK, InPlace
<1>4. CASE Signup(r) \/ CreateBoard(r) \/ DeleteBoard(r) \/ WriteCard(r) \/ TxFails(r)
  BY <1>4 DEF Signup, CreateBoard, DeleteBoard, WriteCard, TxFails, Answer, Goto, TypeOK, InPlace
<1>5. CASE AddMember(r) \/ ChangeMember(r) \/ RenameBoard(r)
  BY <1>5 DEF AddMember, ChangeMember, RenameBoard, Goto, TypeOK, InPlace
<1>6. CASE Recheck(r) \/ ReadRoster(r) \/ ReadFails(r) \/ Announce(r)
  BY <1>6 DEF Recheck, ReadRoster, ReadFails, Announce, Answer, Goto, TypeOK, InPlace
<1> QED
  BY <1>1, <1>2, <1>3, <1>4, <1>5, <1>6 DEF Serve, Transaction

(* And the others stay where they are.                                     *)
LEMMA InPlaceKept ==
  ASSUME TypeOK, NEW r \in Request, Serve(r) \/ Ask(r), \A q \in Request : InPlace(q)
  PROVE  \A q \in Request : InPlace(q)'
<1>1. ASSUME NEW q \in Request, q # r PROVE InPlace(q)'
  BY <1>1, Others, OldKept DEF InPlace
<1> QED
  BY <1>1, InPlaceStep

(* Every step keeps the invariant.                                         *)
LEMMA MemberStep == MemberInv /\ [Next]_vars => MemberInv'
<1> SUFFICES ASSUME MemberInv, [Next]_vars PROVE MemberInv'
  OBVIOUS
<1>0. TypeOK /\ TypeOK' /\ Story /\ \A r \in Request : InPlace(r) /\ Honest(r)
  BY TypeStep DEF MemberInv
<1>1. ASSUME NEW r \in Request, Serve(r) \/ Ask(r), UNCHANGED <<board, role, log>>, Honest(r)'
      PROVE  MemberInv'
  BY <1>0, <1>1, StoryKept, HonestKept, Others, InPlaceKept DEF MemberInv
<1>2. ASSUME NEW r \in Request, Ask(r) PROVE MemberInv'
  <2>1. /\ UNCHANGED <<board, role, log, ans>> /\ pc[r] = "idle" /\ pc'[r] \in {"tx", "require"}
        /\ asked'[r] = Len(log)
        /\ pc'[r] = "tx" => inp'[r].op \in {"signup", "create"}
    BY <1>0, <1>2, OfferedAssumption DEF Ask, db, Goto, TypeOK
  <2>2. ans'[r] # "OK"
    BY <1>0, <2>1, NoneAssumption DEF TypeOK, Code
  <2>3. Len(log) \in Nat
    BY <1>0 DEF TypeOK
  <2>4. Honest(r)'
    BY <2>1, <2>2, <2>3 DEF Honest, Through, Needs
  <2> QED
    BY <1>1, <1>2, <2>1, <2>4
<1>3. ASSUME NEW r \in Request, Require(r) PROVE MemberInv'
  <2>1. /\ UNCHANGED <<board, role, log, inp, asked>> /\ pc[r] = "require"
        /\ \/ /\ Can(role[inp[r].actor], Needs[inp[r].op])
              /\ UNCHANGED ans /\ pc'[r] \in {"find", "tx"}
              /\ (pc'[r] = "tx" => inp[r].op \notin {"update", "remove"})
           \/ pc'[r] = "done" /\ ans'[r] \in {"FORBIDDEN", "NOT_FOUND"}
    BY <1>0, <1>3 DEF Require, db, Answer, Goto, TypeOK
  <2>2. CASE pc'[r] = "done" /\ ans'[r] \in {"FORBIDDEN", "NOT_FOUND"}
    <3>1. Honest(r)'
      BY <1>0, <2>1, <2>2 DEF Honest, Through
    <3> QED
      BY <1>1, <1>3, <2>1, <3>1 DEF Serve
  <2>3. CASE /\ Can(role[inp[r].actor], Needs[inp[r].op])
             /\ UNCHANGED ans /\ pc'[r] \in {"find", "tx"}
             /\ (pc'[r] = "tx" => inp[r].op \notin {"update", "remove"})
    <3> DEFINE p == inp[r].actor
    <3>1. p \in Person /\ role[p] # None /\ role[p] \in Role /\ Needs[inp[r].op] \in Matrix[role[p]]
      <4>1. p \in Person
        BY <1>0, <2>1, InputKnown
      <4>2. role[p] # None /\ Needs[inp[r].op] \in Matrix[role[p]]
        BY <2>3 DEF Can
      <4> QED
        BY <1>0, <4>1, <4>2 DEF TypeOK
    <3>2. board = "open"
      BY <1>0, <3>1 DEF Story
    <3>3. role[p] = RoleAfter(p, Len(log))
      BY <1>0, <3>1, <3>2 DEF Story, LogExplainsRoster, RoleAfter
    <3>4. Len(log) \in asked[r] .. Len(log)
      BY <1>0, <3>2 DEF Honest, TypeOK
    <3>5. Permitted(r)
      BY <3>1, <3>3, <3>4 DEF Permitted
    <3>6. Permitted(r)'
      BY <2>1, <3>5, PermittedKept
    <3>7. Honest(r)'
      BY <1>0, <2>1, <2>3, <3>2, <3>6 DEF Honest
    <3> QED
      BY <1>1, <1>3, <2>1, <3>7 DEF Serve
  <2> QED
    BY <2>1, <2>2, <2>3
<1>4. ASSUME NEW r \in Request, FindAccount(r) \/ FindMember(r) PROVE MemberInv'
  <2>1. /\ UNCHANGED <<board, role, log, inp, asked>> /\ pc[r] = "find"
        /\ inp[r].op \in {"add", "update", "remove"}
    BY <1>4 DEF FindAccount, FindMember, db
  <2>2. Through(r)
    BY <1>0, <2>1 DEF Through, Needs, TypeOK
  <2>3. inp[r].target = Creator /\ inp[r].op \in {"update", "remove"} /\ pc'[r] = "tx"
          => board # "open" \/ AddedTo(Creator)
    <3> SUFFICES ASSUME inp[r].target = Creator, inp[r].op \in {"update", "remove"}, pc'[r] = "tx"
                 PROVE  board # "open" \/ AddedTo(Creator)
      OBVIOUS
    <3>1. FindMember(r) /\ role[Creator] # "OWNER"
      BY <1>0, <1>4 DEF FindAccount, FindMember, OwnerRefused, Answer, Goto, TypeOK
    <3> QED
      BY <1>0, <3>1 DEF Story, OwnerKeepsBoard, AddedTo
  <2>4. Honest(r)'
    BY <1>0, <2>1, <2>2, <2>3, HonestGoesOn
  <2> QED
    BY <1>1, <1>4, <2>1, <2>4 DEF Serve
<1>5. ASSUME NEW r \in Request,
             WriteCard(r) \/ TxFails(r) \/ Recheck(r) \/ ReadRoster(r) \/ ReadFails(r)
               \/ Announce(r) \/ RenameBoard(r)
      PROVE  MemberInv'
  <2>1. /\ UNCHANGED <<board, role, log, inp, asked>> /\ pc'[r] \in {"read", "announce", "done"}
        /\ pc[r] \in {"require", "find", "tx", "recheck", "read", "announce"}
        /\ pc[r] \in {"require", "find"} => ans'[r] = "INTERNAL"
        /\ pc[r] = "tx" => inp[r].op \in DOMAIN Needs \/ ans'[r] = "INTERNAL"
        /\ ans'[r] = "INTERNAL" => pc'[r] = "done"
    <3> DEFINE Goes == /\ UNCHANGED <<board, role, log, inp, asked>>
                       /\ pc'[r] \in {"read", "announce", "done"}
                       /\ pc[r] \in {"require", "find", "tx", "recheck", "read", "announce"}
                       /\ pc[r] \in {"require", "find"} => ans'[r] = "INTERNAL"
                       /\ pc[r] = "tx" => inp[r].op \in DOMAIN Needs \/ ans'[r] = "INTERNAL"
    <3>4. ans'[r] = "INTERNAL" => pc'[r] = "done"
      BY <1>0, NoneAssumption DEF TypeOK, Code
    <3>1. CASE WriteCard(r) \/ TxFails(r) \/ RenameBoard(r)
      <4>1. Goes
        BY <1>0, <3>1 DEF WriteCard, TxFails, RenameBoard, db, Answer, Goto, TypeOK, Needs
      <4> QED
        BY <4>1, <3>4
    <3>2. CASE Recheck(r) \/ ReadRoster(r)
      <4>1. Goes
        BY <1>0, <3>2 DEF Recheck, ReadRoster, db, Answer, Goto, TypeOK
      <4> QED
        BY <4>1, <3>4
    <3>3. CASE ReadFails(r) \/ Announce(r)
      BY <1>0, <3>3 DEF ReadFails, Announce, db, Answer, Goto, TypeOK
    <3> QED
      BY <1>5, <3>1, <3>2, <3>3
  <2>2. CASE ans'[r] = "INTERNAL"
    <3>1. Honest(r)'
      BY <1>0, <2>1, <2>2 DEF Honest, Through
    <3> QED
      BY <1>1, <1>5, <2>1, <3>1 DEF Serve, Transaction
  <2>3. CASE ans'[r] # "INTERNAL"
    <3>1. pc[r] \in {"tx", "recheck", "read", "announce"} /\ inp[r].op \in DOMAIN Needs
      BY <1>0, <2>1, <2>3 DEF InPlace, Needs
    <3>2. Through(r)
      BY <1>0, <3>1 DEF Through, TypeOK
    <3>3. Honest(r)'
      BY <1>0, <2>1, <3>2, HonestGoesOn
    <3> QED
      BY <1>1, <1>5, <2>1, <3>3 DEF Serve, Transaction
  <2> QED
    BY <2>2, <2>3
<1>6. ASSUME NEW r \in Request, Signup(r) PROVE MemberInv'
  <2>1. UNCHANGED <<board, role, log, inp, asked>> /\ pc'[r] = "done" /\ inp[r].op = "signup"
    BY <1>0, <1>6 DEF Signup, Answer, Goto, TypeOK
  <2>2. Honest(r)'
    BY <1>0, <2>1 DEF Honest, Through, Needs
  <2> QED
    BY <1>1, <1>6, <2>1, <2>2 DEF Serve, Transaction
<1>7. ASSUME NEW r \in Request, CreateBoard(r) PROVE MemberInv'
  <2>1. /\ UNCHANGED <<log, inp, asked>> /\ pc[r] = "tx" /\ pc'[r] = "done" /\ inp[r].op = "create"
        /\ \/ UNCHANGED <<board, role>>
           \/ board = "none" /\ board' = "open" /\ role' = [role EXCEPT ![Creator] = "OWNER"]
    BY <1>0, <1>7 DEF CreateBoard, Answer, Goto, TypeOK
  <2>2. CASE UNCHANGED <<board, role>>
    <3>1. Honest(r)'
      BY <1>0, <2>1, <2>2 DEF Honest, Through, Needs, AddedTo, Lines
    <3> QED
      BY <1>1, <1>7, <2>1, <2>2, <3>1 DEF Serve, Transaction
  <2>3. CASE board = "none" /\ board' = "open" /\ role' = [role EXCEPT ![Creator] = "OWNER"]
    <3>1. log = <<>> /\ log' = <<>> /\ \A p \in Person : role[p] = None
      BY <1>0, <2>1, <2>3 DEF Story
    <3>2. LastLine' /\ \A p \in Person : Lines(p, Len(log))' = {}
      <4>1. Len(log') = 0
        BY <3>1
      <4>2. \A p : Lines(p, 0)' = {}
        BY DEF Lines
      <4> QED
        BY <4>1, <4>2 DEF LastLine
    <3>3. role'[Creator] = "OWNER" /\ \A p \in Person : p # Creator => role'[p] = None
      BY <1>0, <2>3, <3>1, StartAssumption DEF TypeOK
    <3>4. Story'
      <4>1. Start[Creator] = "OWNER"
        BY StartAssumption
      <4>2. LogExplainsRoster' /\ OwnerKeepsBoard'
        BY <3>2, <3>3, <4>1 DEF LogExplainsRoster, OwnerKeepsBoard
      <4> QED
        BY <2>3, <3>2, <4>2 DEF Story
    <3>5. ASSUME NEW q \in Request PROVE Honest(q)'
      <4>1. ~ Through(q) /\ asked[q] <= Len(log)
        BY <1>0, <2>3 DEF Honest
      <4>2. asked'[q] <= Len(log')
        BY <2>1, <4>1
      <4>3. ~ Through(q)'
        BY <1>0, <1>7, <2>1, <4>1, Others DEF Through, Serve, Transaction, Needs
      <4>4. ~ (pc'[q] = "tx" /\ inp'[q].op \in {"update", "remove"})
        BY <1>0, <4>3 DEF Through, Needs, TypeOK
      <4> QED
        BY <4>2, <4>3, <4>4 DEF Honest
    <3> QED
      BY <1>0, <1>7, <3>4, <3>5, InPlaceKept DEF MemberInv, Serve, Transaction
  <2> QED
    BY <2>1, <2>2, <2>3
<1>8. ASSUME NEW r \in Request, DeleteBoard(r) PROVE MemberInv'
  <2>1. /\ board' = "deleted" /\ role' = [p \in Person |-> None] /\ log' = <<>>
    BY <1>8 DEF DeleteBoard
  <2>2. LastLine'
    BY <2>1 DEF LastLine, Lines
  <2>3. Story'
    BY <2>1, <2>2 DEF Story, LogExplainsRoster, OwnerKeepsBoard
  <2>4. \A q \in Request : Honest(q)'
    BY <2>1 DEF Honest
  <2> QED
    BY <1>0, <1>8, <2>3, <2>4, InPlaceKept DEF MemberInv, Serve, Transaction
<1>9. ASSUME NEW r \in Request, AddMember(r) \/ ChangeMember(r) PROVE MemberInv'
  <2>1. /\ pc[r] = "tx" /\ pc'[r] = "recheck" /\ UNCHANGED <<board, inp, ans, asked>>
        /\ inp[r].op \in {"add", "update", "remove"}
    BY <1>0, <1>9 DEF AddMember, ChangeMember, Goto, TypeOK
  <2>2. inp[r].target \in Person /\ inp[r].role \in Role /\ Through(r)
    BY <1>0, <2>1, InputKnown DEF Through, Needs, TypeOK
  <2>3. board = "open"
    BY <1>0, <1>9, <2>2 DEF AddMember, ChangeMember, RowFound, Story
  <2>4. \E new \in Line : /\ log' = Append(log, new) /\ new.who = inp[r].target
                          /\ role' = [role EXCEPT ![new.who] = new.now]
                          /\ new.kind = "MEMBER_ADDED" \/ inp[r].op \in {"update", "remove"}
    <3>1. CASE AddMember(r)
      <4> DEFINE new == [kind |-> "MEMBER_ADDED", who |-> inp[r].target, was |-> role[inp[r].target],
                         now |-> inp[r].role]
      <4>1. new \in Line
        BY <1>0, <2>2 DEF Line, TypeOK
      <4> QED
        BY <3>1, <4>1 DEF AddMember, Logged
    <3>2. CASE ChangeMember(r)
      <4> DEFINE now == IF inp[r].op = "update" THEN inp[r].role ELSE None
                 kind == IF inp[r].op = "update" THEN "MEMBER_ROLE_CHANGED" ELSE "MEMBER_REMOVED"
                 new == [kind |-> kind, who |-> inp[r].target, was |-> old[r], now |-> now]
      <4>1. new \in Line
        BY <1>0, <2>2 DEF Line, TypeOK
      <4>2. role' = [role EXCEPT ![inp[r].target] = now]
        BY <1>0, <3>2, <2>2 DEF ChangeMember, RowFound, TypeOK
      <4>3. log' = Append(log, new) /\ inp[r].op \in {"update", "remove"}
        BY <3>2 DEF ChangeMember, Logged
      <4> QED
        BY <4>1, <4>2, <4>3
    <3> QED
      BY <1>9, <3>1, <3>2
  <2>5. PICK new \in Line : /\ log' = Append(log, new) /\ new.who = inp[r].target
                            /\ role' = [role EXCEPT ![new.who] = new.now]
                            /\ new.kind = "MEMBER_ADDED" \/ inp[r].op \in {"update", "remove"}
    BY <2>4
  <2>6. Story'
    BY <1>0, <2>1, <2>3, <2>5, StoryGrows DEF Honest
  <2>7. ASSUME NEW q \in Request PROVE Honest(q)'
    <3>1. inp'[q] = inp[q] /\ asked'[q] = asked[q] /\ (pc[q] # "idle" => inp[q].actor \in Person)
      BY <1>0, <2>1, InputKnown
    <3>2. (Through(q)' => Through(q)) /\ (pc'[q] = "tx" => pc[q] = "tx")
      BY <1>0, <1>9, <2>1, <2>2, Others DEF Through, Serve, Transaction
    <3> QED
      BY <1>0, <2>1, <2>3, <2>5, <3>1, <3>2, HonestGrows
  <2> QED
    BY <1>0, <1>9, <2>6, <2>7, InPlaceKept DEF MemberInv, Serve, Transaction
<1>10. ASSUME NEW p \in Page, PageStep(p) PROVE MemberInv'
  <2>1. UNCHANGED <<board, role, log, inp, ans, pc, asked, old>>
    BY <1>10 DEF PageStep, Deliver, Drop, JoinRead, JoinEnter, db
  <2> QED
    BY <1>0, <2>1, StoryKept, HonestKept DEF MemberInv, InPlace
<1>11. CASE UNCHANGED vars
  <2>1. UNCHANGED <<board, role, log, inp, ans, pc, asked, old>>
    BY <1>11 DEF vars
  <2> QED
    BY <1>0, <2>1, StoryKept, HonestKept DEF MemberInv, InPlace
<1> QED
  BY <1>2, <1>3, <1>4, <1>5, <1>6, <1>7, <1>8, <1>9, <1>10, <1>11 DEF Next, Serve, Transaction

(* The invariant holds always.                                             *)
LEMMA MemberInvariant == Spec => []MemberInv
BY MemberInit, MemberStep, PTL DEF Spec

(* No request but an addMember of the owner's own address takes the board  *)
(* from who created it.                                                    *)
THEOREM OwnerKeeps == Spec => []OwnerKeepsBoard
<1>1. MemberInv => OwnerKeepsBoard
  BY DEF MemberInv, Story
<1> QED
  BY <1>1, MemberInvariant, PTL

(* The lines about members tell what the members are.                      *)
THEOREM LogExplains == Spec => []LogExplainsRoster
<1>1. MemberInv => LogExplainsRoster
  BY DEF MemberInv, Story
<1> QED
  BY <1>1, MemberInvariant, PTL

(* Whoever succeeds had the role for it since asking.                      *)
THEOREM SuccessWasPermitted == Spec => []PermittedMeanwhile
<1>1. MemberInv => PermittedMeanwhile
  BY NoneAssumption DEF MemberInv, TypeOK, Honest, Through, Permitted, PermittedMeanwhile, Code
<1> QED
  BY <1>1, MemberInvariant, PTL

(* Every role may read the board, so that announceMembers, which asks      *)
(* again, refuses nobody who is still a member after what was committed.   *)
THEOREM RefusedIsNoMember == Spec => CommittedThenRefused
<1> DEFINE Step == \A r \in Request :
      pc[r] = "recheck" /\ ans'[r] \in {"FORBIDDEN", "NOT_FOUND"} => role[inp[r].actor] = None
<1>1. MemberInv /\ [Next]_vars => [Step]_vars
  <2> SUFFICES ASSUME MemberInv, Next, NEW r \in Request, pc[r] = "recheck",
                      ans'[r] \in {"FORBIDDEN", "NOT_FOUND"}
               PROVE  role[inp[r].actor] = None
    OBVIOUS
  <2>1. TypeOK /\ ans[r] = None /\ inp[r].actor \in Person
    BY InputKnown DEF MemberInv, TypeOK
  <2>2. ans'[r] # ans[r]
    BY <2>1, NoneAssumption DEF Code
  <2>3. Serve(r) \/ Ask(r)
    <3>1. ASSUME NEW q \in Request, q # r, Serve(q) \/ Ask(q) PROVE FALSE
      BY <2>1, <2>2, <3>1, Others
    <3>2. ASSUME NEW p \in Page, PageStep(p) PROVE FALSE
      BY <2>2, <3>2 DEF PageStep, Deliver, Drop, JoinRead, JoinEnter
    <3> QED
      BY <3>1, <3>2 DEF Next
  <2>4. Recheck(r) \/ ReadFails(r)
    BY <2>3 DEF Serve, Ask, Transaction, Require, FindAccount, FindMember, Signup, CreateBoard,
       DeleteBoard, WriteCard, TxFails, AddMember, ChangeMember, RenameBoard, ReadRoster, Announce
  <2>5. ~ MayRead(inp[r].actor)
    BY <2>1, <2>2, <2>4 DEF Recheck, ReadFails, Answer, TypeOK
  <2>6. role[inp[r].actor] \in Role \union {None}
    BY <2>1 DEF TypeOK
  <2> QED
    BY <2>5, <2>6 DEF MayRead, Can, Matrix, Role, Operation
<1> QED
  BY <1>1, MemberInvariant, PTL DEF Spec, CommittedThenRefused

-----------------------------------------------------------------------------
(* What the pages are told.                                                *)

About == {"members", "name"}

Field(a, x) == IF a = "members" THEN x.members ELSE x.name

Truth(a) == IF a = "members" THEN role ELSE name

Messages(p, a) == {k \in 1 .. Len(inbox[p]) : inbox[p][k].about = a}

(* p shows the truth about a when it has read what is under way to it.     *)
WillShow(p, a) ==
  /\ Messages(p, a) = {} => Field(a, shown[p]) = Truth(a)
  /\ \A k \in Messages(p, a) :
       (\A l \in Messages(p, a) : l <= k) => Field(a, inbox[p][k].roster) = Truth(a)

Topic(r) == IF inp[r].op = "rename" THEN "name" ELSE "members"

(* r will still announce a, as it was after the write w or later.          *)
WillTell(r, a, w) ==
  \/ /\ a = "members" /\ pc[r] \in {"recheck", "read"}
     /\ ~ (inp[r].op = "update" /\ old[r] = inp[r].role)
  \/ pc[r] = "announce" /\ Topic(r) = a /\ got[r].at >= w

(* Whatever was read since the write w is the truth about a.               *)
Current(a, w) == \A r \in Request : pc[r] = "announce" /\ got[r].at >= w => Field(a, got[r]) = Truth(a)

(* w is the last write of a: either somebody is about to announce it, or   *)
(* it has been, to every page; and who would announce something older      *)
(* would be late.                                                          *)
ToldSince(a, w) ==
  /\ Current(a, w)
  /\ \/ \E r \in Request : WillTell(r, a, w)
     \/ sent[a] >= w /\ \A p \in Page : link[p] = "live" => WillShow(p, a)

Converging(a) == tidy => \E w \in 0 .. writes : ToldSince(a, w)

(* A page that joins shows what there was when it read the board.          *)
Entering ==
  \A p \in Page : link[p] = "entering" =>
    /\ shown[p].at <= writes
    /\ shown[p].at = writes /\ board = "open" => \A a \in About : Field(a, shown[p]) = Truth(a)

RosterInv ==
  /\ \A r \in Request : pc[r] = "announce" => got[r].at <= writes
  /\ board = "none" => \A p \in Page : link[p] = "down"
  /\ Entering
  /\ board = "open" => \A a \in About : Converging(a)

(* A step of r that does not change what there is to know of a, and        *)
(* announces nothing: if r was to announce a it still is, and what it has  *)
(* read is the truth.                                                      *)
LEMMA ConvergeKept ==
  ASSUME TypeOK, TypeOK', NEW r \in Request, Serve(r) \/ Ask(r), NEW a \in About, Converging(a),
         UNCHANGED <<pages, sent>>, Truth(a)' = Truth(a), writes' \in {writes, writes + 1},
         tidy' => tidy,
         \A w \in 0 .. writes : tidy' /\ WillTell(r, a, w) => WillTell(r, a, w)',
         pc'[r] = "announce" => Field(a, got'[r]) = Truth(a)
  PROVE  Converging(a)'
<1> SUFFICES ASSUME tidy' PROVE \E w \in 0 .. writes' : ToldSince(a, w)'
  BY DEF Converging
<1>1. PICK w \in 0 .. writes : ToldSince(a, w)
  BY DEF Converging
<1>2. w \in 0 .. writes'
  BY DEF TypeOK
<1>3. \A q \in Request : q # r => /\ pc'[q] = pc[q] /\ inp'[q] = inp[q]
                                  /\ old'[q] = old[q] /\ got'[q] = got[q]
  BY Others, OldKept
<1>4. Current(a, w)'
  BY <1>1, <1>3 DEF ToldSince, Current
<1>5. ASSUME NEW q \in Request, WillTell(q, a, w) PROVE WillTell(q, a, w)'
  BY <1>3, <1>5 DEF WillTell, Topic
<1>6. ASSUME NEW p \in Page, WillShow(p, a) PROVE WillShow(p, a)'
  <2>1. inbox'[p] = inbox[p] /\ shown'[p] = shown[p] /\ Messages(p, a)' = Messages(p, a)
    BY DEF pages, Messages
  <2> QED
    BY <1>6, <2>1 DEF WillShow
<1>7. link' = link /\ sent' = sent
  BY DEF pages
<1> QED
  BY <1>1, <1>2, <1>4, <1>5, <1>6, <1>7 DEF ToldSince

(* A page reads a message, and a message is sent to it.                    *)
LEMMA ReadShows ==
  ASSUME TypeOK, NEW p \in Page, Deliver(p), NEW a \in About, WillShow(p, a), UNCHANGED <<role, name>>
  PROVE  WillShow(p, a)'
<1> DEFINE q == inbox[p]
<1>1. /\ q \in Seq([about : About, roster : Roster]) /\ q # <<>> /\ shown[p] \in Roster
      /\ inbox'[p] = Tail(q)
      /\ shown'[p] = IF Head(q).about = "name" THEN [shown[p] EXCEPT !.name = Head(q).roster.name]
                     ELSE [shown[p] EXCEPT !.members = Head(q).roster.members]
  BY DEF Deliver, TypeOK, About
<1>2. /\ Len(q) \in Nat \ {0} /\ Len(Tail(q)) = Len(q) - 1 /\ Head(q) = q[1]
      /\ \A k \in 1 .. Len(q) - 1 : Tail(q)[k] = q[k + 1]
  BY <1>1
<1>3. \A k \in 1 .. Len(q) - 1 : k \in Messages(p, a)' <=> k + 1 \in Messages(p, a)
  BY <1>1, <1>2 DEF Messages
<1>4. /\ Messages(p, a)' \subseteq 1 .. Len(q) - 1
      /\ Messages(p, a) \subseteq 1 .. Len(q)
  BY <1>1, <1>2 DEF Messages
<1>5. ASSUME Messages(p, a)' = {} PROVE Field(a, shown'[p]) = Truth(a)
  <2>1. Messages(p, a) \subseteq {1}
    <3>1. ASSUME NEW k \in Messages(p, a), k # 1 PROVE FALSE
      <4>1. k - 1 \in 1 .. Len(q) - 1 /\ (k - 1) + 1 = k
        BY <1>2, <1>4, <3>1
      <4> QED
        BY <1>3, <1>5, <4>1
    <3> QED
      BY <3>1
  <2>2. CASE 1 \in Messages(p, a)
    <3>1. q[1].about = a /\ Field(a, q[1].roster) = Truth(a)
      BY <2>1, <2>2 DEF WillShow, Messages
    <3>2. Field(a, shown'[p]) = Field(a, q[1].roster)
      BY <1>1, <1>2, <3>1 DEF Field, Roster, About
    <3> QED
      BY <3>1, <3>2
  <2>3. CASE 1 \notin Messages(p, a)
    <3>1. q[1].about # a /\ q[1].about \in About
      <4>1. 1 \in 1 .. Len(q) /\ q[1] \in [about : About, roster : Roster]
        <5>1. Head(q) \in [about : About, roster : Roster]
          BY <1>1, HeadTailTyped
        <5>2. 1 \in 1 .. Len(q)
          BY <1>2
        <5> QED
          BY <1>2, <5>1, <5>2
      <4>2. q[1].about \in About
        BY <4>1
      <4>3. q[1].about # a
        BY <2>3, <4>1 DEF Messages
      <4> QED
        BY <4>2, <4>3
    <3>2. Field(a, shown'[p]) = Field(a, shown[p])
      BY <1>1, <1>2, <3>1 DEF Field, Roster, About
    <3> QED
      BY <2>1, <2>3, <3>2 DEF WillShow
  <2> QED
    BY <2>2, <2>3
<1>6. ASSUME NEW k \in Messages(p, a)', \A l \in Messages(p, a)' : l <= k
      PROVE  Field(a, inbox'[p][k].roster) = Truth(a)
  <2>1. k \in 1 .. Len(q) - 1 /\ k + 1 \in Messages(p, a) /\ inbox'[p][k] = q[k + 1]
    BY <1>1, <1>2, <1>3, <1>4
  <2>2. ASSUME NEW l \in Messages(p, a) PROVE l <= k + 1
    <3>1. CASE l = 1
      BY <2>1, <3>1
    <3>2. CASE l # 1
      <4>1. l - 1 \in 1 .. Len(q) - 1 /\ (l - 1) + 1 = l
        BY <1>2, <1>4, <3>2
      <4>2. l - 1 <= k
        BY <1>3, <1>6, <4>1
      <4> QED
        BY <1>2, <2>1, <4>1, <4>2
    <3> QED
      BY <3>1, <3>2
  <2> QED
    BY <2>1, <2>2 DEF WillShow
<1>7. Truth(a)' = Truth(a)
  BY DEF Truth
<1> QED
  BY <1>5, <1>6, <1>7 DEF WillShow

(* A page that is told will show what is told last.                        *)
LEMMA ToldShows ==
  ASSUME TypeOK, NEW p \in Page, NEW a \in About, NEW m \in [about : About, roster : Roster],
         inbox'[p] = Append(inbox[p], m), shown'[p] = shown[p], UNCHANGED <<role, name>>,
         IF m.about = a THEN Field(a, m.roster) = Truth(a) ELSE WillShow(p, a)
  PROVE  WillShow(p, a)'
<1> DEFINE q == inbox[p]
           n == Len(q)
<1>1. q \in Seq([about : About, roster : Roster])
  BY DEF TypeOK, About
<1>2. /\ n \in Nat /\ Len(inbox'[p]) = n + 1 /\ inbox'[p][n + 1] = m
      /\ \A k \in 1 .. n : inbox'[p][k] = q[k]
  BY <1>1
<1>3. Truth(a)' = Truth(a)
  BY DEF Truth
<1>4. CASE m.about = a
  <2>1. n + 1 \in Messages(p, a)' /\ \A k \in Messages(p, a)' : k \in 1 .. n + 1
    BY <1>2, <1>4 DEF Messages
  <2>2. ASSUME NEW k \in Messages(p, a)', \A l \in Messages(p, a)' : l <= k PROVE k = n + 1
    BY <1>2, <2>1, <2>2
  <2> QED
    BY <1>2, <1>3, <1>4, <2>1, <2>2 DEF WillShow
<1>5. CASE m.about # a
  <2>1. Messages(p, a)' = Messages(p, a)
    BY <1>2, <1>5 DEF Messages
  <2>2. \A k \in Messages(p, a) : inbox'[p][k] = q[k]
    BY <1>2 DEF Messages
  <2> QED
    BY <1>3, <1>5, <2>1, <2>2 DEF WillShow
<1> QED
  BY <1>4, <1>5

(* Every page shows, or will show, the members at the start.               *)
LEMMA RosterInit == Init => RosterInv
<1> SUFFICES ASSUME Init PROVE RosterInv
  OBVIOUS
<1>1. \A r \in Request : pc[r] = "idle"
  BY DEF Init
<1>2. (board = "none" => \A p \in Page : link[p] = "down") /\ Entering
  BY DEF Init, Entering
<1>3. ASSUME NEW a \in About, board = "open" PROVE ToldSince(a, 0)
  <2>1. Current(a, 0)
    BY <1>1 DEF Current
  <2>2. ASSUME NEW p \in Page PROVE WillShow(p, a)
    <3>1. inbox[p] = <<>> /\ shown[p] = Now
      BY <1>3 DEF Init
    <3>2. Messages(p, a) = {}
      BY <3>1 DEF Messages
    <3> QED
      BY <3>1, <3>2 DEF WillShow, Field, Truth, Now
  <2>3. sent[a] = 0
    BY DEF Init, About
  <2> QED
    BY <2>1, <2>2, <2>3 DEF ToldSince
<1> QED
  BY <1>1, <1>2, <1>3 DEF RosterInv, Converging, Init

(* A page that is about to join is not misled by a write: it is outdated.  *)
LEMMA EnteringKept ==
  ASSUME TypeOK, Entering, UNCHANGED <<shown, link>>,
         UNCHANGED <<role, name, board, writes>> \/ writes' = writes + 1
  PROVE  Entering'
<1>1. CASE UNCHANGED <<role, name, board, writes>>
  BY <1>1 DEF Entering, Truth, Field
<1>2. CASE writes' = writes + 1
  <2>1. ASSUME NEW p \in Page, link[p] = "entering" PROVE shown[p].at \in Nat /\ shown[p].at <= writes
    BY <2>1, NoneAssumption DEF TypeOK, Roster, Entering
  <2>2. writes \in Nat
    BY DEF TypeOK
  <2>3. ASSUME NEW p \in Page, link[p] = "entering" PROVE shown[p].at <= writes + 1 /\ shown[p].at # writes + 1
    BY <2>1, <2>2, <2>3
  <2> QED
    BY <1>2, <2>3 DEF Entering
<1> QED
  BY <1>1, <1>2

(* A write of a that will be announced is the new last write of it.        *)
LEMMA ConvergeAnew ==
  ASSUME RosterInv, MemberInv, TypeOK', NEW r \in Request, Serve(r), NEW a \in About,
         writes' = writes + 1, NEW w, w = writes + 1, WillTell(r, a, w)',
         pc'[r] = "announce" => Field(a, got'[r]) = Truth(a)'
  PROVE  Converging(a)'
<1>1. writes \in Nat /\ writes + 1 \in 0 .. writes'
  BY DEF MemberInv, TypeOK
<1>2. ASSUME NEW q \in Request, q # r, pc'[q] = "announce" PROVE ~ (got'[q].at >= writes + 1)
  <2>1. pc[q] = "announce" /\ got'[q] = got[q] /\ got[q].at <= writes
    BY <1>2, Others, OldKept DEF MemberInv, RosterInv
  <2>2. got[q].at \in Nat
    BY <2>1, NoneAssumption DEF MemberInv, TypeOK, Roster
  <2> QED
    BY <1>1, <2>1, <2>2
<1>3. Current(a, w)'
  BY <1>2 DEF Current
<1> QED
  BY <1>1, <1>3 DEF ToldSince, Converging

(* And after every step, as long as its broadcasts arrive in order.        *)
LEMMA RosterStep == MemberInv /\ MemberInv' /\ RosterInv /\ [Next]_vars => RosterInv'
<1> SUFFICES ASSUME MemberInv, MemberInv', RosterInv, [Next]_vars PROVE RosterInv'
  OBVIOUS
<1>0. TypeOK /\ TypeOK'
  BY DEF MemberInv
<1>1. ASSUME NEW r \in Request, Serve(r) \/ Ask(r),
             UNCHANGED <<role, name, board, writes, pages, sent>>, tidy' => tidy,
             \A a \in About, w \in 0 .. writes : tidy' /\ WillTell(r, a, w) => WillTell(r, a, w)',
             pc'[r] = "announce" => got'[r] = Now
      PROVE  RosterInv'
  <2>1. ASSUME NEW q \in Request, pc'[q] = "announce" PROVE got'[q].at <= writes'
    <3>1. CASE q = r
      BY <1>0, <1>1, <2>1, <3>1 DEF Now, TypeOK
    <3>2. CASE q # r
      BY <1>0, <1>1, <2>1, <3>2, Others, OldKept DEF RosterInv
    <3> QED
      BY <3>1, <3>2
  <2>2. Entering'
    BY <1>0, <1>1, EnteringKept DEF RosterInv, pages
  <2>3. ASSUME board' = "open", NEW a \in About PROVE Converging(a)'
    <3>1. Truth(a)' = Truth(a)
      BY <1>1 DEF Truth
    <3>2. Field(a, Now) = Truth(a)
      BY DEF Field, Truth, Now
    <3> QED
      BY <1>0, <1>1, <2>3, <3>1, <3>2, ConvergeKept DEF RosterInv
  <2> QED
    BY <1>1, <2>1, <2>2, <2>3 DEF RosterInv, pages
<1>2. ASSUME NEW r \in Request, Ask(r) \/ Require(r) \/ FindAccount(r) \/ FindMember(r) \/ Signup(r)
                                 \/ WriteCard(r) \/ TxFails(r)
      PROVE  RosterInv'
  <2>1. UNCHANGED <<role, name, board, writes, pages, sent, tidy>>
    BY <1>2 DEF Ask, Require, FindAccount, FindMember, Signup, WriteCard, TxFails, db
  <2>2. pc[r] \in {"idle", "require", "find", "tx"} /\ pc'[r] # "announce"
    BY <1>0, <1>2 DEF Ask, Require, FindAccount, FindMember, Signup, WriteCard, TxFails, Answer, Goto,
       TypeOK
  <2>3. Serve(r) \/ Ask(r)
    BY <1>2 DEF Serve, Transaction
  <2> QED
    BY <1>1, <2>1, <2>2, <2>3 DEF WillTell
<1>3. ASSUME NEW r \in Request, Recheck(r) \/ ReadRoster(r) \/ ReadFails(r) PROVE RosterInv'
  <2>1. UNCHANGED <<role, name, board, writes, pages, sent, inp, old>> /\ Serve(r)
    BY <1>3 DEF Recheck, ReadRoster, ReadFails, db, Serve
  <2>2. tidy' => tidy
    BY <1>3 DEF Recheck, ReadRoster, ReadFails
  <2>3. pc'[r] = "announce" => got'[r] = Now
    BY <1>0, <1>3 DEF Recheck, ReadRoster, ReadFails, Answer, Goto, TypeOK
  <2>4. ASSUME NEW a \in About, NEW w \in 0 .. writes, tidy', WillTell(r, a, w)
        PROVE  WillTell(r, a, w)'
    <3>1. CASE Recheck(r)
      <4>0. MayRead(inp[r].actor)
        BY <2>4, <3>1 DEF Recheck
      <4>1. pc[r] = "recheck" /\ pc'[r] = "read"
        BY <1>0, <3>1, <4>0 DEF Recheck, Goto, TypeOK
      <4> QED
        BY <2>1, <2>4, <4>1 DEF WillTell
    <3>2. CASE ReadRoster(r)
      <4>1. /\ pc[r] = "read" /\ got'[r] = Now
            /\ inp[r].op \in {"add", "update", "remove"}
        BY <1>0, <3>2 DEF ReadRoster, TypeOK, MemberInv, InPlace
      <4>2. a = "members" /\ ~ (inp[r].op = "update" /\ old[r] = inp[r].role)
        BY <2>4, <4>1 DEF WillTell
      <4>3. pc'[r] = "announce"
        BY <1>0, <3>2, <4>2 DEF ReadRoster, Goto, TypeOK
      <4>4. got'[r].at = writes /\ writes >= w
        BY <1>0, <4>1 DEF Now, TypeOK
      <4> QED
        BY <2>1, <4>1, <4>2, <4>3, <4>4 DEF WillTell, Topic
    <3>3. CASE ReadFails(r)
      BY <2>4, <3>3 DEF ReadFails, WillTell
    <3> QED
      BY <1>3, <3>1, <3>2, <3>3
  <2> QED
    BY <1>1, <2>1, <2>2, <2>3, <2>4
<1>4. ASSUME NEW r \in Request, AddMember(r) \/ ChangeMember(r) \/ RenameBoard(r) PROVE RosterInv'
  <2>1. /\ UNCHANGED <<board, pages, sent, tidy, inp, old>> /\ Serve(r) /\ pc[r] = "tx"
        /\ writes' = writes + 1
    BY <1>4 DEF AddMember, ChangeMember, RenameBoard, Serve, Transaction, Written
  <2>2. \/ /\ pc'[r] = "recheck" /\ name' = name /\ inp[r].op \in {"add", "update", "remove"}
           /\ inp[r].op = "update" => old[r] # inp[r].role
        \/ /\ pc'[r] = "announce" /\ name' = r /\ inp[r].op = "rename" /\ role' = role
           /\ got'[r] = [members |-> role, name |-> r, at |-> writes + 1]
    BY <1>0, <1>4 DEF AddMember, ChangeMember, RenameBoard, Goto, TypeOK, MemberInv, InPlace
  <2>3. ASSUME NEW q \in Request, pc'[q] = "announce" PROVE got'[q].at <= writes'
    <3>1. CASE q = r
      BY <1>0, <2>1, <2>2, <2>3, <3>1 DEF TypeOK
    <3>2. CASE q # r
      <4>1. pc[q] = "announce" /\ got'[q] = got[q] /\ got[q].at <= writes
        BY <1>0, <2>1, <2>3, <3>2, Others, OldKept DEF RosterInv
      <4>2. got[q].at \in Nat /\ writes \in Nat
        BY <1>0, <4>1, NoneAssumption DEF TypeOK, Roster
      <4> QED
        BY <2>1, <4>1, <4>2
    <3> QED
      BY <3>1, <3>2
  <2>4. Entering'
    BY <1>0, <2>1, EnteringKept DEF RosterInv, pages
  <2>5. ASSUME board' = "open", NEW a \in About PROVE Converging(a)'
    <3> DEFINE written == IF pc'[r] = "recheck" THEN "members" ELSE "name"
    <3>1. CASE a = written
      <4>0. PICK w : w = writes + 1
        OBVIOUS
      <4>1. WillTell(r, a, w)'
        BY <1>0, <2>1, <2>2, <3>1, <4>0 DEF WillTell, Topic, TypeOK
      <4>2. pc'[r] = "announce" => Field(a, got'[r]) = Truth(a)'
        BY <2>2, <3>1 DEF Field, Truth
      <4> QED
        BY <1>0, <2>1, <4>0, <4>1, <4>2, ConvergeAnew
    <3>2. CASE a # written
      <4>1. Truth(a)' = Truth(a)
        BY <2>2, <3>2 DEF Truth, About
      <4>2. pc'[r] = "announce" => Field(a, got'[r]) = Truth(a)
        BY <2>2, <3>2 DEF Field, Truth, About
      <4>3. \A w : ~ WillTell(r, a, w)
        BY <2>1 DEF WillTell
      <4> QED
        BY <1>0, <2>1, <2>5, <4>1, <4>2, <4>3, ConvergeKept DEF RosterInv
    <3> QED
      BY <3>1, <3>2
  <2> QED
    BY <2>1, <2>3, <2>4, <2>5 DEF RosterInv, pages
<1>5. ASSUME NEW r \in Request, CreateBoard(r) PROVE RosterInv'
  <2>1. /\ UNCHANGED <<pages, sent, tidy, got>> /\ Serve(r) /\ pc[r] = "tx" /\ pc'[r] = "done"
        /\ \/ UNCHANGED <<role, name, board, writes>>
           \/ board = "none" /\ board' = "open" /\ writes' = writes + 1
    BY <1>0, <1>5 DEF CreateBoard, Serve, Transaction, Written, Answer, Goto, TypeOK
  <2>2. CASE UNCHANGED <<role, name, board, writes>>
    BY <1>1, <2>1, <2>2 DEF WillTell
  <2>3. CASE board = "none" /\ board' = "open" /\ writes' = writes + 1
    <3>1. ASSUME NEW q \in Request PROVE pc'[q] # "announce"
      <4>1. pc[q] # "announce"
        BY <1>0, <2>3 DEF MemberInv, InPlace, Honest, Through, Needs, TypeOK
      <4> QED
        BY <1>0, <2>1, <4>1, Others
    <3>2. \A p \in Page : link'[p] = "down"
      BY <2>1, <2>3 DEF RosterInv, pages
    <3>3. ASSUME NEW a \in About PROVE Converging(a)'
      <4>1. Current(a, 0)' /\ sent'[a] >= 0 /\ 0 \in 0 .. writes'
        BY <1>0, <2>3, <3>1 DEF Current, TypeOK, About
      <4> QED
        BY <3>2, <4>1 DEF Converging, ToldSince
    <3> QED
      BY <2>3, <3>1, <3>2, <3>3 DEF RosterInv, Entering
  <2> QED
    BY <2>1, <2>2, <2>3
<1>6. ASSUME NEW r \in Request, DeleteBoard(r) PROVE RosterInv'
  <2>1. /\ UNCHANGED <<pages, got>> /\ board' = "deleted" /\ writes' = writes + 1 /\ Serve(r)
        /\ pc'[r] = "done"
    BY <1>0, <1>6 DEF DeleteBoard, Written, Serve, Transaction, Answer, Goto, TypeOK
  <2>2. ASSUME NEW q \in Request, pc'[q] = "announce" PROVE got'[q].at <= writes'
    <3>1. pc[q] = "announce" /\ got'[q] = got[q] /\ got[q].at <= writes
      BY <1>0, <2>1, <2>2, Others DEF RosterInv
    <3>2. got[q].at \in Nat /\ writes \in Nat
      BY <1>0, <3>1, NoneAssumption DEF TypeOK, Roster
    <3> QED
      BY <2>1, <3>1, <3>2
  <2>3. Entering'
    BY <1>0, <2>1, EnteringKept DEF RosterInv, pages
  <2> QED
    BY <2>1, <2>2, <2>3 DEF RosterInv
<1>7. ASSUME NEW r \in Request, Announce(r) PROVE RosterInv'
  <2> DEFINE m == [about |-> Topic(r), roster |-> got[r]]
  <2>1. /\ UNCHANGED <<role, name, board, writes, shown, link, got>> /\ Serve(r)
        /\ pc[r] = "announce" /\ pc'[r] = "done"
    BY <1>0, <1>7 DEF Announce, db, Serve, Answer, Goto, TypeOK
  <2>2. \/ /\ inbox' = Told(m) /\ tidy' = (tidy /\ sent[Topic(r)] <= got[r].at)
           /\ sent' = [sent EXCEPT ![Topic(r)] = IF @ < got[r].at THEN got[r].at ELSE @]
        \/ tidy' = FALSE
    BY <1>7 DEF Announce, Announced, Topic
  <2>3. Entering'
    BY <1>0, <2>1, EnteringKept DEF RosterInv
  <2>4. \A q \in Request : q # r => /\ pc'[q] = pc[q] /\ inp'[q] = inp[q]
                                    /\ old'[q] = old[q] /\ got'[q] = got[q]
    BY <1>0, <2>1, Others, OldKept
  <2>5. \A q \in Request : pc'[q] = "announce" => q # r
    BY <2>1
  <2>6. ASSUME board' = "open", NEW a \in About, tidy' PROVE \E w \in 0 .. writes' : ToldSince(a, w)'
    <3>1. /\ inbox' = Told(m) /\ sent[Topic(r)] <= got[r].at /\ tidy
          /\ sent' = [sent EXCEPT ![Topic(r)] = IF @ < got[r].at THEN got[r].at ELSE @]
      BY <2>2, <2>6
    <3>2. PICK w \in 0 .. writes : ToldSince(a, w)
      BY <2>1, <2>6, <3>1 DEF RosterInv, Converging
    <3>3. Current(a, w)' /\ Truth(a)' = Truth(a)
      BY <2>1, <2>4, <2>5, <3>2 DEF ToldSince, Current, Truth
    <3>4. /\ got[r] \in Roster /\ got[r].at \in Nat /\ w \in Nat /\ Topic(r) \in About
          /\ sent \in [About -> Nat] /\ m \in [about : About, roster : Roster]
      BY <1>0, <2>1, NoneAssumption DEF TypeOK, Roster, Topic, About
    <3>5. ASSUME NEW q \in Request, q # r, WillTell(q, a, w) PROVE WillTell(q, a, w)'
      BY <2>4, <3>5 DEF WillTell, Topic
    <3>6. ASSUME NEW p \in Page, link[p] = "live",
                 IF Topic(r) = a THEN Field(a, got[r]) = Truth(a) ELSE WillShow(p, a)
          PROVE  WillShow(p, a)'
      <4>1. inbox'[p] = Append(inbox[p], m)
        BY <3>1, <3>6 DEF Told
      <4> QED
        BY <1>0, <2>1, <3>4, <3>6, <4>1, ToldShows
    <3>7. CASE \E q \in Request : q # r /\ WillTell(q, a, w)
      BY <2>1, <3>2, <3>3, <3>5, <3>7 DEF ToldSince
    <3>8. CASE Topic(r) = a /\ got[r].at >= w
      <4>1. Field(a, got[r]) = Truth(a)
        BY <2>1, <3>2, <3>8 DEF ToldSince, Current
      <4>2. sent'[a] >= w
        BY <3>1, <3>4, <3>8
      <4> QED
        BY <2>1, <3>2, <3>3, <3>6, <3>8, <4>1, <4>2 DEF ToldSince
    <3>9. CASE ~ (Topic(r) = a /\ got[r].at >= w) /\ ~ \E q \in Request : q # r /\ WillTell(q, a, w)
      <4>1. ~ WillTell(r, a, w)
        BY <2>1, <3>9 DEF WillTell
      <4>2. sent[a] >= w /\ \A p \in Page : link[p] = "live" => WillShow(p, a)
        BY <3>2, <3>9, <4>1 DEF ToldSince
      <4>3. Topic(r) # a
        BY <3>1, <3>4, <3>9, <4>2
      <4>4. sent'[a] = sent[a]
        BY <3>1, <3>4, <4>3
      <4> QED
        BY <2>1, <3>2, <3>3, <3>6, <4>2, <4>3, <4>4 DEF ToldSince
    <3> QED
      BY <3>7, <3>8, <3>9
  <2> QED
    BY <2>1, <2>3, <2>4, <2>5, <2>6 DEF RosterInv, Converging
<1>8. ASSUME NEW p \in Page, PageStep(p) PROVE RosterInv'
  <2>1. UNCHANGED <<role, name, board, writes, inp, pc, old, got, sent>>
    BY <1>8 DEF PageStep, Deliver, Drop, JoinRead, JoinEnter, db
  <2>2. ASSUME Entering',
               board = "none" => link'[p] = "down", \A q \in Page : q # p => link'[q] = link[q],
               tidy' => tidy,
               \A a \in About : board = "open" /\ tidy' =>
                 \A q \in Page : link'[q] = "live" /\ (link[q] = "live" => WillShow(q, a))
                                   => WillShow(q, a)'
        PROVE  RosterInv'
    <3>1. \A q \in Request : \A a, w : WillTell(q, a, w)' = WillTell(q, a, w)
      BY <2>1 DEF WillTell, Topic
    <3>2. ASSUME NEW a, NEW w, Current(a, w) PROVE Current(a, w)'
      BY <2>1, <3>2 DEF Current, Truth
    <3>3. ASSUME board = "open", tidy', NEW a \in About, NEW w, ToldSince(a, w) PROVE ToldSince(a, w)'
      BY <2>1, <2>2, <3>1, <3>2, <3>3 DEF ToldSince
    <3>4. board = "open" => \A a \in About : Converging(a)'
      BY <2>1, <2>2, <3>3 DEF RosterInv, Converging
    <3> QED
      BY <2>1, <2>2, <3>4 DEF RosterInv
  <2>3. ASSUME NEW q \in Page, inbox'[q] = inbox[q], shown'[q] = shown[q], NEW a, WillShow(q, a)
        PROVE  WillShow(q, a)'
    <3>1. Messages(q, a)' = Messages(q, a) /\ Truth(a)' = Truth(a)
      BY <2>1, <2>3 DEF Messages, Truth
    <3> QED
      BY <2>3, <3>1 DEF WillShow
  <2>4. CASE Deliver(p)
    <3>1. /\ link[p] = "live" /\ UNCHANGED <<link, tidy>>
          /\ \A q \in Page : q # p => inbox'[q] = inbox[q] /\ shown'[q] = shown[q]
      BY <1>0, <2>4 DEF Deliver, TypeOK
    <3>2. Entering'
      BY <2>1, <3>1 DEF RosterInv, Entering, Truth
    <3>3. ASSUME NEW a \in About, NEW q \in Page, WillShow(q, a) PROVE WillShow(q, a)'
      BY <1>0, <2>1, <2>3, <2>4, <3>1, <3>3, ReadShows
    <3> QED
      BY <2>2, <3>1, <3>2, <3>3 DEF RosterInv
  <2>5. CASE Drop(p)
    <3>1. /\ link'[p] = "down" /\ UNCHANGED <<shown, tidy>>
          /\ \A q \in Page : q # p => inbox'[q] = inbox[q] /\ link'[q] = link[q]
      BY <1>0, <2>5 DEF Drop, TypeOK
    <3>2. Entering'
      BY <2>1, <3>1 DEF RosterInv, Entering, Truth
    <3> QED
      BY <2>2, <2>3, <3>1, <3>2
  <2>6. CASE JoinRead(p)
    <3>1. /\ board = "open" /\ link'[p] = "entering" /\ shown'[p] = Now /\ UNCHANGED <<inbox, tidy>>
          /\ \A q \in Page : q # p => shown'[q] = shown[q] /\ link'[q] = link[q]
      BY <1>0, <2>6 DEF JoinRead, TypeOK
    <3>2. \A a : Truth(a)' = Truth(a)
      BY <2>1 DEF Truth
    <3>3. writes \in Nat /\ Now.at = writes
      BY <1>0 DEF TypeOK, Now
    <3>4. ASSUME NEW a \in About PROVE Field(a, Now) = Truth(a)
      BY <3>4 DEF Field, Now, Truth, About
    <3>5. ASSUME NEW q \in Page, link'[q] = "entering"
          PROVE  /\ shown'[q].at <= writes
                 /\ board = "open" /\ shown'[q].at = writes =>
                      \A a \in About : Field(a, shown'[q]) = Truth(a)
      <4>1. CASE q = p
        BY <3>1, <3>3, <3>4, <4>1
      <4>2. CASE q # p
        BY <3>1, <3>5, <4>2 DEF RosterInv, Entering
      <4> QED
        BY <4>1, <4>2
    <3>6. Entering'
      BY <2>1, <3>2, <3>5 DEF Entering
    <3> QED
      BY <2>2, <2>3, <3>1, <3>6
  <2>7. CASE JoinEnter(p)
    <3>1. /\ link[p] = "entering" /\ link'[p] = "live" /\ UNCHANGED <<shown, inbox>>
          /\ tidy' = (tidy /\ shown[p].at = writes)
          /\ \A q \in Page : q # p => link'[q] = link[q]
      BY <1>0, <2>7 DEF JoinEnter, TypeOK
    <3>2. Entering'
      BY <2>1, <3>1 DEF RosterInv, Entering, Truth
    <3>3. board # "none" /\ inbox[p] = <<>>
      BY <1>0, <3>1 DEF RosterInv, TypeOK
    <3>4. ASSUME board = "open", tidy', NEW a \in About PROVE WillShow(p, a)'
      <4>1. Field(a, shown[p]) = Truth(a)
        BY <3>1, <3>4 DEF RosterInv, Entering
      <4>2. Messages(p, a)' = {}
        BY <3>1, <3>3 DEF Messages
      <4> QED
        BY <2>1, <3>1, <4>1, <4>2 DEF WillShow, Truth
    <3> QED
      BY <2>2, <2>3, <3>1, <3>2, <3>3, <3>4
  <2> QED
    BY <1>8, <2>4, <2>5, <2>6, <2>7 DEF PageStep
<1>9. CASE UNCHANGED vars
  <2>1. /\ UNCHANGED <<role, name, board, writes, inp, pc, old, got, sent, tidy, link, shown, inbox>>
    BY <1>9 DEF vars
  <2>2. \A q, a, w : WillTell(q, a, w)' = WillTell(q, a, w)
    BY <2>1 DEF WillTell, Topic
  <2>3. \A q, a : Messages(q, a)' = Messages(q, a) /\ Truth(a)' = Truth(a)
    BY <2>1 DEF Messages, Truth
  <2>4. \A q, a : WillShow(q, a)' = WillShow(q, a)
    BY <2>1, <2>3 DEF WillShow
  <2>5. \A a, w : Current(a, w)' = Current(a, w)
    BY <2>1, <2>3 DEF Current
  <2>6. \A a, w : ToldSince(a, w)' = ToldSince(a, w)
    BY <2>1, <2>2, <2>4, <2>5 DEF ToldSince
  <2> QED
    BY <2>1, <2>3, <2>6 DEF RosterInv, Converging, Entering
<1> QED
  BY <1>2, <1>3, <1>4, <1>5, <1>6, <1>7, <1>8, <1>9 DEF Next, Serve, Transaction

(* When all is quiet the pages show the members and the name as they are,  *)
(* unless the run was not tidy.                                            *)
THEOREM PagesConverge == Spec => []RosterConverges
<1>1. MemberInv /\ RosterInv => RosterConverges
  <2> SUFFICES ASSUME MemberInv, RosterInv, Quiet, tidy, board = "open", NEW p \in Page, link[p] = "live",
                      NEW a \in About
               PROVE  Field(a, shown[p]) = Truth(a)
    BY DEF RosterConverges, Field, Truth, About
  <2>1. PICK w \in 0 .. writes : ToldSince(a, w)
    BY DEF RosterInv, Converging
  <2>2. \A r \in Request : ~ WillTell(r, a, w)
    BY DEF Quiet, WillTell
  <2>3. WillShow(p, a) /\ inbox[p] = <<>>
    BY <2>1, <2>2 DEF ToldSince, Quiet
  <2>4. Messages(p, a) = {}
    BY <2>3 DEF Messages
  <2> QED
    BY <2>3, <2>4 DEF WillShow
<1> QED
  BY <1>1, RosterInit, RosterStep, MemberInvariant, PTL DEF Spec
=============================================================================
