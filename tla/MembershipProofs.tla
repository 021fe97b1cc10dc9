-------------------------- MODULE MembershipProofs --------------------------
(***************************************************************************)
(* Proofs about the participants of a conversation, for any number of      *)
(* entities and of requests served at once.                                *)
(***************************************************************************)
EXTENDS Membership, FiniteSetTheorems, TLAPS

\* A request record is of its type when its fields are.
LEMMA ReadyRequest == Ready \in Request /\ RequestOK(Ready)
BY DEF Ready, Request, Steps, Role, RequestOK

\* Moving one worker to a well-formed request keeps every request well-formed.
LEMMA GotoOK ==
  ASSUME TypeOK, NEW w \in Worker, NEW r \in Request, RequestOK(r), Goto(w, r)
  PROVE  req' \in [Worker -> Request] /\ \A v \in Worker : RequestOK(req'[v])
BY DEF TypeOK, Goto

LEMMA FinishOK ==
  ASSUME TypeOK, NEW w \in Worker, Finish(w)
  PROVE  req' \in [Worker -> Request] /\ \A v \in Worker : RequestOK(req'[v])
BY ReadyRequest, GotoOK DEF Finish

\* What each statement does to a row of the table
LEMMA InsertRowOK ==
  ASSUME TypeOK, NEW e \in Entity, NEW role \in Role, InsertRow(e, role)
  PROVE  /\ row' \in [Entity -> Row]
         /\ \A x \in Entity : row[x].state = "left" => row'[x] = row[x]
         /\ \A x \in Entity : row'[x].read = row[x].read
         /\ role # "owner" => \A x \in Entity :
              row'[x].state = "active" /\ row'[x].role = "owner" => row'[x] = row[x]
BY DEF TypeOK, InsertRow, Row

LEMMA SetLeftOK ==
  ASSUME TypeOK, NEW e \in Entity, SetLeft(e)
  PROVE  /\ row' \in [Entity -> Row]
         /\ \A x \in Entity : row[x].state = "left" => row'[x] = row[x]
         /\ \A x \in Entity : row'[x].read = row[x].read
         /\ \A x \in Entity : row'[x].state = "active" => row'[x] = row[x]
BY DEF TypeOK, SetLeft, Row

LEMMA SetRoleOK ==
  ASSUME TypeOK, NEW e \in Entity, NEW role \in Role, SetRole(e, role)
  PROVE  /\ row' \in [Entity -> Row]
         /\ \A x \in Entity : row[x].state = "left" => row'[x] = row[x]
         /\ \A x \in Entity : row'[x].read = row[x].read
         /\ role # "owner" => \A x \in Entity :
              row'[x].state = "active" /\ row'[x].role = "owner" => row'[x] = row[x]
BY DEF TypeOK, SetRole, Row, Active
-----------------------------------------------------------------------------
(* Types, departed rows and read marks *)

FrozenStep == \A e \in Entity : row[e].state = "left" => row'[e] = row[e]
MarksStep  == \A e \in Entity : row'[e].read >= row[e].read

LEMMA InitType == Init => TypeOK
<1> SUFFICES ASSUME Init PROVE TypeOK
  OBVIOUS
<1>1. row \in [Entity -> Row]
  <2>1. PICK creator \in Entity, members \in SUBSET Entity, p \in Pref :
          row = [e \in Entity |->
                  [state |-> IF e = creator \/ e \in members THEN "active" ELSE "none",
                   role  |-> IF e = creator THEN "owner" ELSE "member",
                   read  |-> 0, pref |-> p]]
    BY DEF Init
  <2>2. 0 \in 0..MaxMsg
    BY MembershipAssumption
  <2>3. QED
    BY <2>1, <2>2 DEF Row, Role
<1>2. QED
  BY <1>1, ReadyRequest DEF Init, TypeOK

\* Nothing moves in the table when only requests move.
LEMMA RowKept ==
  ASSUME TypeOK, row' = row
  PROVE  row' \in [Entity -> Row] /\ FrozenStep /\ MarksStep
BY DEF TypeOK, FrozenStep, MarksStep, Row

LEMMA WorkStep ==
  ASSUME TypeOK, NEW w \in Worker, Work(w)
  PROVE  TypeOK' /\ FrozenStep /\ MarksStep
<1> USE MembershipAssumption
<1>0. TypeOK /\ req[w] \in Request /\ RequestOK(req[w]) /\ Ready \in Request
  BY ReadyRequest DEF TypeOK
<1>a. ASSUME NEW r \in Request, RequestOK(r), Goto(w, r), UNCHANGED <<row, useCount, admitted>>, faults' \in Nat
      PROVE  TypeOK' /\ FrozenStep /\ MarksStep
  BY <1>a, GotoOK, RowKept DEF TypeOK
<1>b. ASSUME Finish(w), UNCHANGED <<row, useCount, admitted>>, faults' \in Nat
      PROVE  TypeOK' /\ FrozenStep /\ MarksStep
  BY <1>b, FinishOK, RowKept DEF TypeOK
<1>1. ASSUME NEW who \in Entity, NEW target \in Entity, NEW role \in Named,
             AddCheck(w, who, target, role)
      PROVE  TypeOK' /\ FrozenStep /\ MarksStep
  <2> DEFINE r == [Ready EXCEPT !.pc = "insert", !.target = target, !.role = role]
  <2>1. r \in Request /\ RequestOK(r)
    BY <1>1 DEF AddCheck, Ready, Request, Steps, Role, RequestOK
  <2>2. QED
    BY <1>0, <1>1, <1>a, <2>1 DEF AddCheck, TypeOK
<1>2. ASSUME NEW who \in Entity, NEW target \in Entity, NEW role \in Named,
             RoleCaller(w, who, target, role)
      PROVE  TypeOK' /\ FrozenStep /\ MarksStep
  <2> DEFINE r == [Ready EXCEPT !.pc = "role_target", !.target = target, !.role = role]
  <2>1. r \in Request /\ RequestOK(r)
    BY <1>2 DEF RoleCaller, Ready, Request, Steps, Role, RequestOK
  <2>2. QED
    BY <1>0, <1>2, <1>a, <2>1 DEF RoleCaller, TypeOK
<1>3. ASSUME NEW who \in Entity, NEW target \in Entity, RemoveCheck(w, who, target)
      PROVE  TypeOK' /\ FrozenStep /\ MarksStep
  <2> DEFINE r == [Ready EXCEPT !.pc = "remove", !.target = target]
  <2>1. r \in Request /\ RequestOK(r)
    BY DEF Ready, Request, Steps, Role, RequestOK
  <2>2. QED
    BY <1>0, <1>3, <1>a, <2>1 DEF RemoveCheck, TypeOK
<1>4. ASSUME NEW who \in Entity, LeaveCheck(w, who)
      PROVE  TypeOK' /\ FrozenStep /\ MarksStep
  <2> DEFINE r == [Ready EXCEPT !.pc = IF row[who].role = "owner" THEN "list" ELSE "remove",
                                !.who = who, !.target = who]
  <2>1. r \in Request /\ RequestOK(r)
    BY DEF Ready, Request, Steps, Role, RequestOK
  <2>2. QED
    BY <1>0, <1>4, <1>a, <2>1 DEF LeaveCheck, TypeOK
<1>5. ASSUME NEW who \in Entity, JoinRead(w, who)
      PROVE  TypeOK' /\ FrozenStep /\ MarksStep
  <2> DEFINE r == [Ready EXCEPT !.pc = "join_check", !.who = who]
  <2>1. r \in Request /\ RequestOK(r)
    BY DEF Ready, Request, Steps, Role, RequestOK
  <2>2. QED
    BY <1>0, <1>5, <1>a, <2>1 DEF JoinRead, TypeOK
<1>6. ASSUME AddInsert(w) PROVE TypeOK' /\ FrozenStep /\ MarksStep
  <2>1. req[w].target \in Entity /\ req[w].role \in Role
    BY <1>0, <1>6 DEF AddInsert, RequestOK, Request
  <2>2. QED
    BY <1>0, <1>6, <2>1, FinishOK, InsertRowOK DEF AddInsert, TypeOK, FrozenStep, MarksStep, Row
<1>7. ASSUME Remove(w) PROVE TypeOK' /\ FrozenStep /\ MarksStep
  <2>1. req[w].target \in Entity
    BY <1>0, <1>7 DEF Remove, RequestOK
  <2>2. QED
    BY <1>0, <1>7, <2>1, FinishOK, SetLeftOK DEF Remove, TypeOK, FrozenStep, MarksStep, Row
<1>8. ASSUME LeaveList(w) PROVE TypeOK' /\ FrozenStep /\ MarksStep
  <2>1. req[w].who \in Entity /\ req[w].pc = "list"
    BY <1>0, <1>8 DEF LeaveList, RequestOK
  <2>2. CASE Goto(w, [req[w] EXCEPT !.pc = "remove"])
    <3> DEFINE r == [req[w] EXCEPT !.pc = "remove"]
    <3>1. r \in Request /\ RequestOK(r)
      BY <1>0, <2>1 DEF Request, Steps, RequestOK
    <3>2. QED
      BY <1>0, <1>8, <1>a, <2>2, <3>1 DEF LeaveList, TypeOK
  <2>3. CASE \E h \in Heirs(req[w].who) :
               Goto(w, [req[w] EXCEPT !.pc = "transfer", !.heir = h])
    <3>1. PICK h \in Heirs(req[w].who) : Goto(w, [req[w] EXCEPT !.pc = "transfer", !.heir = h])
      BY <2>3
    <3> DEFINE r == [req[w] EXCEPT !.pc = "transfer", !.heir = h]
    <3>2. h \in Entity
      BY DEF Heirs, Present
    <3>3. r \in Request /\ RequestOK(r)
      BY <1>0, <2>1, <3>2 DEF Request, Steps, RequestOK
    <3>4. QED
      BY <1>0, <1>8, <1>a, <3>1, <3>3 DEF LeaveList, TypeOK
  <2>4. QED
    BY <1>8, <2>2, <2>3 DEF LeaveList
<1>9. ASSUME LeaveTransfer(w) PROVE TypeOK' /\ FrozenStep /\ MarksStep
  <2> DEFINE r == [req[w] EXCEPT !.pc = "remove"]
  <2>1. req[w].heir \in Entity /\ "owner" \in Role
    BY <1>0, <1>9 DEF LeaveTransfer, RequestOK, Role
  <2>2. r \in Request /\ RequestOK(r)
    BY <1>0, <1>9 DEF LeaveTransfer, Request, Steps, RequestOK
  <2>3. QED
    BY <1>0, <1>9, <2>1, <2>2, GotoOK, SetRoleOK
       DEF LeaveTransfer, TypeOK, FrozenStep, MarksStep, Row
<1>10. ASSUME RoleTarget(w) PROVE TypeOK' /\ FrozenStep /\ MarksStep
  <2> DEFINE r == [req[w] EXCEPT !.pc = "role"]
  <2>1. r \in Request /\ RequestOK(r)
    BY <1>0, <1>10 DEF RoleTarget, Request, Steps, RequestOK
  <2>2. QED
    BY <1>10, <1>a, <1>0, ReadyRequest, <2>1 DEF RoleTarget, TypeOK
<1>11. ASSUME RoleUpdate(w) PROVE TypeOK' /\ FrozenStep /\ MarksStep
  <2>1. req[w].target \in Entity /\ req[w].role \in Role
    BY <1>0, <1>11 DEF RoleUpdate, RequestOK, Request
  <2>2. QED
    BY <1>0, <1>11, <2>1, FinishOK, SetRoleOK DEF RoleUpdate, TypeOK, FrozenStep, MarksStep, Row
<1>12. ASSUME JoinCheck(w) PROVE TypeOK' /\ FrozenStep /\ MarksStep
  <2> DEFINE r == [req[w] EXCEPT !.pc = "join_insert"]
  <2>1. r \in Request /\ RequestOK(r)
    BY <1>0, <1>12 DEF JoinCheck, Request, Steps, RequestOK
  <2>2. QED
    BY <1>12, <1>a, <1>0, ReadyRequest, <2>1 DEF JoinCheck, TypeOK
<1>13. ASSUME JoinInsert(w) PROVE TypeOK' /\ FrozenStep /\ MarksStep
  <2> DEFINE r == [req[w] EXCEPT !.pc = "join_count"]
  <2>1. req[w].who \in Entity /\ "member" \in Role
    BY <1>0, <1>13 DEF JoinInsert, RequestOK, Role
  <2>2. r \in Request /\ RequestOK(r)
    BY <1>0, <1>13 DEF JoinInsert, Request, Steps, RequestOK
  <2>3. admitted' \subseteq Entity
    BY <1>13, <2>1 DEF JoinInsert, TypeOK
  <2>4. QED
    BY <1>0, <1>13, <2>1, <2>2, <2>3, GotoOK, InsertRowOK
       DEF JoinInsert, TypeOK, FrozenStep, MarksStep, Row
<1>14. ASSUME JoinCount(w) PROVE TypeOK' /\ FrozenStep /\ MarksStep
  BY <1>14, FinishOK, RowKept DEF JoinCount, TypeOK
<1>15. ASSUME StatementFails(w) PROVE TypeOK' /\ FrozenStep /\ MarksStep
  <2>1. faults' \in Nat /\ UNCHANGED <<row, useCount, admitted>>
    BY <1>0, <1>15 DEF StatementFails, TypeOK
  <2>2. CASE Finish(w)
    BY <1>b, <2>1, <2>2
  <2>3. CASE req[w].pc \in {"list", "transfer"} /\ Goto(w, [req[w] EXCEPT !.pc = "remove"])
    <3> DEFINE r == [req[w] EXCEPT !.pc = "remove"]
    <3>1. r \in Request /\ RequestOK(r)
      BY <1>0, <2>3 DEF Request, Steps, RequestOK
    <3>2. QED
      BY <1>a, <2>1, <2>3, <3>1
  <2>4. CASE req[w].pc = "join_check" /\ Goto(w, [req[w] EXCEPT !.pc = "join_insert"])
    <3> DEFINE r == [req[w] EXCEPT !.pc = "join_insert"]
    <3>1. r \in Request /\ RequestOK(r)
      BY <1>0, <2>4 DEF Request, Steps, RequestOK
    <3>2. QED
      BY <1>a, <2>1, <2>4, <3>1
  <2>5. QED
    BY <1>15, <2>2, <2>3, <2>4 DEF StatementFails
<1>16. QED
  BY <1>1, <1>2, <1>3, <1>4, <1>5, <1>6, <1>7, <1>8, <1>9, <1>10, <1>11, <1>12, <1>13, <1>14, <1>15
     DEF Work

LEMMA OwnRowStep ==
  ASSUME TypeOK, NEW e \in Entity,
         \/ \E m \in 0..MaxMsg : MarkAsRead(e, m)
         \/ \E p \in Pref : SetPref(e, p)
  PROVE  TypeOK' /\ FrozenStep /\ MarksStep
<1> USE MembershipAssumption
<1>1. ASSUME NEW m \in 0..MaxMsg, MarkAsRead(e, m) PROVE TypeOK' /\ FrozenStep /\ MarksStep
  BY <1>1 DEF MarkAsRead, TypeOK, FrozenStep, MarksStep, Row, Active
<1>2. ASSUME NEW p \in Pref, SetPref(e, p) PROVE TypeOK' /\ FrozenStep /\ MarksStep
  BY <1>2 DEF SetPref, TypeOK, FrozenStep, MarksStep, Row, Active
<1>3. QED
  BY <1>1, <1>2

LEMMA RowStep == TypeOK /\ [Next]_vars => TypeOK' /\ FrozenStep /\ MarksStep
<1> SUFFICES ASSUME TypeOK, [Next]_vars PROVE TypeOK' /\ FrozenStep /\ MarksStep
  OBVIOUS
<1>1. CASE UNCHANGED vars
  BY <1>1, RowKept DEF vars, TypeOK
<1>2. QED
  BY <1>1, WorkStep, OwnRowStep DEF Next

\* TypeOK: every row and request is of its type, and no request that adds or
\* promotes names the role "owner", whatever the interleaving.
THEOREM MembershipTypes == Spec => []TypeOK
BY InitType, RowStep, PTL DEF Spec

\* DepartedFrozen: a statement that runs late never touches a departed row.
THEOREM MembershipDeparted == Spec => DepartedFrozen
<1>1. TypeOK /\ [Next]_vars => [\A e \in Entity : row[e].state = "left" => row'[e] = row[e]]_vars
  BY RowStep DEF FrozenStep
<1>2. QED
  BY MembershipTypes, <1>1, PTL DEF Spec, DepartedFrozen

\* ReadNeverGoesBack: read marks only grow, in whatever order they arrive.
THEOREM MembershipReadMarks == Spec => ReadNeverGoesBack
<1>1. TypeOK /\ [Next]_vars => [\A e \in Entity : row'[e].read >= row[e].read]_vars
  BY RowStep DEF MarksStep
<1>2. QED
  BY MembershipTypes, <1>1, PTL DEF Spec, ReadNeverGoesBack
-----------------------------------------------------------------------------
(* Ownership *)

LEMMA OwnerStep ==
  ASSUME TypeOK, [Next]_vars, Owners = {},
         \A w \in Worker : req[w].pc \notin {"list", "transfer"}
  PROVE  Owners' = {}
<1> USE MembershipAssumption
<1>0. \A w \in Worker : req[w] \in Request /\ RequestOK(req[w])
  BY DEF TypeOK
<1>a. ASSUME row' = row PROVE Owners' = {}
  BY <1>a DEF Owners, Present, Active
<1>b. ASSUME \A x \in Entity : row'[x].state = "active" /\ row'[x].role = "owner"
               => row'[x] = row[x]
      PROVE  Owners' = {}
  BY <1>b DEF Owners, Present, Active
<1>1. ASSUME NEW w \in Worker, AddInsert(w) PROVE Owners' = {}
  <2>1. req[w].target \in Entity /\ req[w].role \in Role /\ req[w].role # "owner"
    BY <1>0, <1>1 DEF AddInsert, RequestOK, Request
  <2>2. QED
    BY <1>1, <1>b, <2>1, InsertRowOK DEF AddInsert
<1>2. ASSUME NEW w \in Worker, Remove(w) PROVE Owners' = {}
  <2>1. req[w].target \in Entity
    BY <1>0, <1>2 DEF Remove, RequestOK
  <2>2. QED
    BY <1>2, <1>b, <2>1, SetLeftOK DEF Remove
<1>3. ASSUME NEW w \in Worker, RoleUpdate(w) PROVE Owners' = {}
  <2>1. req[w].target \in Entity /\ req[w].role \in Role /\ req[w].role # "owner"
    BY <1>0, <1>3 DEF RoleUpdate, RequestOK, Request
  <2>2. QED
    BY <1>3, <1>b, <2>1, SetRoleOK DEF RoleUpdate
<1>4. ASSUME NEW w \in Worker, JoinInsert(w) PROVE Owners' = {}
  <2>1. req[w].who \in Entity /\ "member" \in Role
    BY <1>0, <1>4 DEF JoinInsert, RequestOK, Role
  <2>2. QED
    BY <1>4, <1>b, <2>1, InsertRowOK DEF JoinInsert
<1>5. ASSUME NEW w \in Worker, LeaveTransfer(w) PROVE Owners' = {}
  BY <1>5 DEF LeaveTransfer
<1>6. ASSUME NEW w \in Worker, Work(w) PROVE Owners' = {}
  BY <1>1, <1>2, <1>3, <1>4, <1>5, <1>6, <1>a
     DEF Work, AddCheck, RoleCaller, RemoveCheck, LeaveCheck, JoinRead, LeaveList, RoleTarget,
         JoinCheck, JoinCount, StatementFails
<1>7. ASSUME NEW e \in Entity, NEW m \in 0..MaxMsg, MarkAsRead(e, m) PROVE Owners' = {}
  BY <1>7 DEF MarkAsRead, Owners, Present, Active, TypeOK, Row
<1>8. ASSUME NEW e \in Entity, NEW p \in Pref, SetPref(e, p) PROVE Owners' = {}
  BY <1>8 DEF SetPref, Owners, Present, Active, TypeOK, Row
<1>9. CASE UNCHANGED vars
  BY <1>9, <1>a DEF vars
<1>10. QED
  BY <1>6, <1>7, <1>8, <1>9 DEF Next

\* OwnerlessForever: only the transfer of a leaving owner makes an owner, so a
\* conversation that lost its owner stays without one.
THEOREM MembershipOwnerless == Spec => OwnerlessForever
<1>1. TypeOK /\ [Next]_vars =>
        [Owners = {} /\ (\A w \in Worker : req[w].pc \notin {"list", "transfer"})
           => Owners' = {}]_vars
  BY OwnerStep
<1>2. QED
  BY MembershipTypes, <1>1, PTL DEF Spec, OwnerlessForever

\* A role change under way never aims at a first owner: RoleTarget has seen the
\* role of its target, and nobody else's role was ever "owner" before a transfer.
FirstOwnerInv(e) ==
  /\ row[e].state # "none" /\ row[e].role = "owner"
  /\ \A w \in Worker : req[w].pc = "role" => req[w].target # e

LEMMA FirstOwnerStep ==
  ASSUME NEW e \in Entity, TypeOK, FirstOwnerInv(e), [Next]_vars
  PROVE  FirstOwnerInv(e)'
<1> USE MembershipAssumption
<1>0. /\ \A w \in Worker : req[w] \in Request /\ RequestOK(req[w])
      /\ row \in [Entity -> Row] /\ req \in [Worker -> Request]
  BY DEF TypeOK
<1>a. ASSUME NEW w \in Worker, NEW r, Goto(w, r), r.pc = "role" => r.target # e,
             row'[e].state # "none", row'[e].role = "owner"
      PROVE  FirstOwnerInv(e)'
  BY <1>0, <1>a DEF FirstOwnerInv, Goto
<1>b. ASSUME NEW w \in Worker, NEW r, Goto(w, r), r.pc # "role", row' = row
      PROVE  FirstOwnerInv(e)'
  BY <1>a, <1>b DEF FirstOwnerInv
<1>c. Ready.pc # "role"
  BY DEF Ready
<1>1. ASSUME NEW w \in Worker, AddInsert(w) PROVE FirstOwnerInv(e)'
  <2>1. row'[e] = row[e]
    BY <1>0, <1>1 DEF AddInsert, InsertRow, FirstOwnerInv
  <2>2. QED
    BY <1>a, <1>c, <1>1, <2>1 DEF AddInsert, Finish, FirstOwnerInv
<1>2. ASSUME NEW w \in Worker, Remove(w) PROVE FirstOwnerInv(e)'
  <2>1. row'[e].state # "none" /\ row'[e].role = "owner"
    BY <1>0, <1>2 DEF Remove, SetLeft, FirstOwnerInv, Row
  <2>2. QED
    BY <1>a, <1>c, <1>2, <2>1 DEF Remove, Finish
<1>3. ASSUME NEW w \in Worker, RoleUpdate(w) PROVE FirstOwnerInv(e)'
  <2>1. row'[e] = row[e]
    BY <1>0, <1>3 DEF RoleUpdate, SetRole, FirstOwnerInv
  <2>2. QED
    BY <1>a, <1>c, <1>3, <2>1 DEF RoleUpdate, Finish, FirstOwnerInv
<1>4. ASSUME NEW w \in Worker, LeaveTransfer(w) PROVE FirstOwnerInv(e)'
  <2>1. row'[e].state # "none" /\ row'[e].role = "owner"
    BY <1>0, <1>4 DEF LeaveTransfer, SetRole, FirstOwnerInv, Row
  <2>2. [req[w] EXCEPT !.pc = "remove"].pc # "role"
    BY <1>0 DEF Request
  <2>3. QED
    BY <1>a, <1>4, <2>1, <2>2 DEF LeaveTransfer
<1>5. ASSUME NEW w \in Worker, JoinInsert(w) PROVE FirstOwnerInv(e)'
  <2>1. row'[e] = row[e]
    BY <1>0, <1>5 DEF JoinInsert, InsertRow, FirstOwnerInv
  <2>2. [req[w] EXCEPT !.pc = "join_count"].pc # "role"
    BY <1>0 DEF Request
  <2>3. QED
    BY <1>a, <1>5, <2>1, <2>2 DEF JoinInsert, FirstOwnerInv
<1>6. ASSUME NEW w \in Worker, RoleTarget(w) PROVE FirstOwnerInv(e)'
  <2> DEFINE r == IF Active(req[w].target) /\ row[req[w].target].role # "owner"
                    THEN [req[w] EXCEPT !.pc = "role"] ELSE Ready
  <2>1. r.pc = "role" => r.target # e
    BY <1>0, <1>c DEF FirstOwnerInv, Request
  <2>2. Goto(w, r) /\ row' = row
    BY <1>6 DEF RoleTarget
  <2> HIDE DEF r
  <2>3. QED
    BY <1>a, <2>1, <2>2 DEF FirstOwnerInv
<1>7. ASSUME NEW w \in Worker,
             \/ \E who, target \in Entity, role \in Named :
                  AddCheck(w, who, target, role) \/ RoleCaller(w, who, target, role)
             \/ \E who, target \in Entity : RemoveCheck(w, who, target)
             \/ \E who \in Entity : LeaveCheck(w, who) \/ JoinRead(w, who)
             \/ LeaveList(w) \/ JoinCheck(w) \/ JoinCount(w) \/ StatementFails(w)
      PROVE  FirstOwnerInv(e)'
  <2>1. row' = row
    BY <1>7 DEF AddCheck, RoleCaller, RemoveCheck, LeaveCheck, JoinRead, LeaveList, JoinCheck,
                JoinCount, StatementFails
  <2>2. \A pc \in Steps : [req[w] EXCEPT !.pc = pc].pc = pc
    BY <1>0 DEF Request
  <2>3. ASSUME NEW who \in Entity, NEW target \in Entity, NEW role \in Named,
               AddCheck(w, who, target, role) \/ RoleCaller(w, who, target, role)
        PROVE  FirstOwnerInv(e)'
    <3> DEFINE r(pc) == [Ready EXCEPT !.pc = pc, !.target = target, !.role = role]
    <3>1. \A pc \in Steps : r(pc).pc = pc
      BY DEF Ready
    <3>2. \E pc \in {"insert", "role_target"} : Goto(w, r(pc))
      BY <2>3 DEF AddCheck, RoleCaller
    <3> HIDE DEF r
    <3>3. PICK pc \in {"insert", "role_target"} : Goto(w, r(pc)) /\ r(pc).pc # "role"
      BY <3>1, <3>2 DEF Steps
    <3>4. QED
      BY <1>b, <2>1, <3>3
  <2>4. ASSUME NEW who \in Entity, NEW target \in Entity, RemoveCheck(w, who, target)
        PROVE  FirstOwnerInv(e)'
    <3>1. [Ready EXCEPT !.pc = "remove", !.target = target].pc # "role"
      BY DEF Ready
    <3>2. QED
      BY <1>b, <2>1, <2>4, <3>1 DEF RemoveCheck
  <2>5. ASSUME NEW who \in Entity, LeaveCheck(w, who) PROVE FirstOwnerInv(e)'
    <3>1. [Ready EXCEPT !.pc = IF row[who].role = "owner" THEN "list" ELSE "remove",
                        !.who = who, !.target = who].pc # "role"
      BY DEF Ready
    <3>2. QED
      BY <1>b, <2>1, <2>5, <3>1 DEF LeaveCheck
  <2>6. ASSUME NEW who \in Entity, JoinRead(w, who) PROVE FirstOwnerInv(e)'
    <3>1. [Ready EXCEPT !.pc = "join_check", !.who = who].pc # "role"
      BY DEF Ready
    <3>2. QED
      BY <1>b, <2>1, <2>6, <3>1 DEF JoinRead
  <2>7. CASE LeaveList(w)
    <3>1. \A h : [req[w] EXCEPT !.pc = "transfer", !.heir = h].pc # "role"
      BY <1>0 DEF Request
    <3>2. [req[w] EXCEPT !.pc = "remove"].pc # "role"
      BY <2>2 DEF Steps
    <3>3. QED
      BY <1>b, <2>1, <2>7, <3>1, <3>2 DEF LeaveList
  <2>8. CASE JoinCheck(w) \/ JoinCount(w) \/ StatementFails(w)
    <3>1. \A pc \in {"remove", "join_insert"} : [req[w] EXCEPT !.pc = pc].pc # "role"
      BY <2>2 DEF Steps
    <3>2. \/ Goto(w, Ready)
          \/ \E pc \in {"remove", "join_insert"} : Goto(w, [req[w] EXCEPT !.pc = pc])
      BY <2>8 DEF JoinCheck, JoinCount, StatementFails, Finish
    <3>3. QED
      BY <1>b, <1>c, <2>1, <3>1, <3>2
  <2>9. QED
    BY <1>7, <2>3, <2>4, <2>5, <2>6, <2>7, <2>8
<1>8. ASSUME NEW x \in Entity, NEW m \in 0..MaxMsg, MarkAsRead(x, m) PROVE FirstOwnerInv(e)'
  BY <1>0, <1>8 DEF MarkAsRead, FirstOwnerInv, Row
<1>9. ASSUME NEW x \in Entity, NEW p \in Pref, SetPref(x, p) PROVE FirstOwnerInv(e)'
  BY <1>0, <1>9 DEF SetPref, FirstOwnerInv, Row
<1>10. CASE UNCHANGED vars
  BY <1>10 DEF vars, FirstOwnerInv
<1>11. QED
  BY <1>1, <1>2, <1>3, <1>4, <1>5, <1>6, <1>7, <1>8, <1>9, <1>10 DEF Next, Work

\* Nobody's role change demotes who created the conversation, however requests
\* overlap (UpdateParticipantRole after a stale test, HandleLeaveConversation).
THEOREM MembershipFirstOwner ==
  ASSUME NEW e \in Entity
  PROVE  Spec => FirstOwnerStays(e)
<1>1. Init /\ e \in Owners => FirstOwnerInv(e)
  BY DEF Init, Owners, Present, Active, FirstOwnerInv, Ready
<1>2. TypeOK /\ FirstOwnerInv(e) /\ [Next]_vars => FirstOwnerInv(e)'
  BY FirstOwnerStep
<1>3. FirstOwnerInv(e) => row[e].role = "owner"
  BY DEF FirstOwnerInv
<1>4. QED
  BY <1>1, <1>2, <1>3, MembershipTypes, PTL DEF Spec, FirstOwnerStays
-----------------------------------------------------------------------------
(* Joins by an invite link *)

JoinSteps == {"join_check", "join_insert", "join_count"}
Joining   == {w \in Worker : req[w].pc \in JoinSteps}
Counting  == {w \in Worker : req[w].pc = "join_count"}

\* Each join under way will add at most one to use_count, and each of them found
\* room when it started.
CountInv ==
  /\ admitted \subseteq Entity
  /\ useCount + Cardinality(Joining) < MaxUses + Cardinality(Worker)
  /\ Cardinality(admitted) <= useCount + faults + Cardinality(Counting)

LEMMA Finite ==
  ASSUME NEW S \in SUBSET Worker
  PROVE  /\ IsFiniteSet(S) /\ Cardinality(S) \in Nat
         /\ Cardinality(S) <= Cardinality(Worker) /\ Cardinality(Worker) \in Nat
BY MembershipAssumption, FS_Subset, FS_CardinalityType

LEMMA InitCount == Init => CountInv
<1> SUFFICES ASSUME Init PROVE CountInv
  OBVIOUS
<1>1. Joining = {} /\ Counting = {} /\ admitted = {} /\ useCount = 0 /\ faults = 0
  BY DEF Init, Joining, Counting, JoinSteps, Ready
<1>2. 0 < MaxUses + Cardinality(Worker)
  BY MembershipAssumption, FS_CardinalityType
<1>3. QED
  BY <1>1, <1>2, FS_EmptySet DEF CountInv

\* A request other than a join leaves both sets of workers alone.
LEMMA JoinersKept ==
  ASSUME TypeOK, NEW w \in Worker, NEW r, Goto(w, r),
         req[w].pc \notin JoinSteps, r.pc \notin JoinSteps
  PROVE  Joining' = Joining /\ Counting' = Counting
BY DEF TypeOK, Goto, Joining, Counting, JoinSteps

LEMMA CountStep == TypeOK /\ CountInv /\ [Next]_vars => CountInv'
<1> SUFFICES ASSUME TypeOK, CountInv, [Next]_vars PROVE CountInv'
  OBVIOUS
<1> USE MembershipAssumption
<1>0. /\ useCount \in Nat /\ faults \in Nat /\ Cardinality(Joining) \in Nat /\ Cardinality(Counting) \in Nat
      /\ IsFiniteSet(Joining) /\ IsFiniteSet(Counting)
      /\ IsFiniteSet(admitted) /\ Cardinality(admitted) \in Nat
  BY Finite, FS_Subset, FS_CardinalityType DEF TypeOK, Joining, Counting
<1>a. ASSUME Joining' = Joining, Counting' = Counting, UNCHANGED <<useCount, faults, admitted>>
      PROVE  CountInv'
  BY <1>a DEF CountInv
<1>b. ASSUME UNCHANGED <<req, useCount, faults, admitted>> PROVE CountInv'
  BY <1>b, <1>a DEF Joining, Counting
<1>1. ASSUME NEW w \in Worker, NEW who \in Entity, JoinRead(w, who) PROVE CountInv'
  <2>1. useCount < MaxUses /\ UNCHANGED <<useCount, faults, admitted>>
    BY <1>1 DEF JoinRead
  <2>2. Joining' \in SUBSET Worker
    BY DEF Joining
  <2>3. Cardinality(Joining') <= Cardinality(Worker) /\ Cardinality(Joining') \in Nat
        /\ Cardinality(Worker) \in Nat
    BY <2>2, Finite
  <2>4. Counting' = Counting
    BY <1>1 DEF JoinRead, Goto, Counting, Ready, TypeOK
  <2>5. QED
    BY <1>0, <2>1, <2>3, <2>4 DEF CountInv
<1>2. ASSUME NEW w \in Worker, JoinCheck(w) PROVE CountInv'
  <2>1. UNCHANGED <<useCount, faults, admitted>> /\ Counting' = Counting
    BY <1>2 DEF JoinCheck, Goto, Counting, Ready, TypeOK
  <2>2. Joining' = Joining \/ Joining' = Joining \ {w}
    BY <1>2 DEF JoinCheck, Goto, Joining, JoinSteps, Ready, TypeOK
  <2>3. Cardinality(Joining') <= Cardinality(Joining) /\ Cardinality(Joining') \in Nat
    <3>1. CASE Joining' = Joining
      BY <1>0, <3>1
    <3>2. CASE Joining' = Joining \ {w}
      <4>1. IsFiniteSet(Joining')
        BY <1>0, <3>2, FS_RemoveElement
      <4>2. Cardinality(Joining') = IF w \in Joining THEN Cardinality(Joining) - 1
                                                     ELSE Cardinality(Joining)
        BY <1>0, <3>2, FS_RemoveElement
      <4>3. QED
        BY <1>0, <4>1, <4>2, FS_CardinalityType
    <3>3. QED
      BY <2>2, <3>1, <3>2
  <2>4. Cardinality(Worker) \in Nat
    BY FS_CardinalityType
  <2>5. QED
    BY <1>0, <2>1, <2>3, <2>4 DEF CountInv
<1>3. ASSUME NEW w \in Worker, JoinInsert(w) PROVE CountInv'
  <2>1. useCount' = useCount /\ faults' = faults /\ req[w].who \in Entity
    BY <1>3 DEF JoinInsert, TypeOK, RequestOK
  <2>2. Joining' = Joining
    BY <1>3 DEF JoinInsert, Goto, Joining, JoinSteps, TypeOK, Request
  <2>3. Counting' = Counting \cup {w} /\ w \notin Counting
    BY <1>3 DEF JoinInsert, Goto, Counting, TypeOK, Request
  <2>4. Cardinality(Counting') = Cardinality(Counting) + 1
    BY <1>0, <2>3, FS_AddElement
  <2>5. /\ admitted' \subseteq Entity
        /\ Cardinality(admitted') <= Cardinality(admitted) + 1 /\ Cardinality(admitted') \in Nat
    <3>1. admitted' = admitted \/ admitted' = admitted \cup {req[w].who}
      BY <1>3 DEF JoinInsert
    <3>2. CASE admitted' = admitted
      BY <1>0, <3>2 DEF CountInv
    <3>3. CASE admitted' = admitted \cup {req[w].who}
      <4>1. IsFiniteSet(admitted') /\ Cardinality(admitted') =
              IF req[w].who \in admitted THEN Cardinality(admitted) ELSE Cardinality(admitted) + 1
        BY <1>0, <3>3, FS_AddElement
      <4>2. admitted' \subseteq Entity
        BY <2>1, <3>3 DEF CountInv
      <4>3. QED
        BY <1>0, <4>1, <4>2
    <3>4. QED
      BY <3>1, <3>2, <3>3
  <2>6. QED
    BY <1>0, <2>1, <2>2, <2>4, <2>5 DEF CountInv
<1>4. ASSUME NEW w \in Worker, JoinCount(w) PROVE CountInv'
  <2>1. useCount' = useCount + 1 /\ admitted' = admitted /\ faults' = faults
    BY <1>4 DEF JoinCount
  <2>2. /\ w \in Joining /\ Joining' = Joining \ {w}
        /\ w \in Counting /\ Counting' = Counting \ {w}
    BY <1>4 DEF JoinCount, Finish, Goto, Joining, Counting, JoinSteps, Ready, TypeOK
  <2>3. /\ Cardinality(Joining') = Cardinality(Joining) - 1
        /\ Cardinality(Counting') = Cardinality(Counting) - 1
    BY <1>0, <2>2, FS_RemoveElement
  <2>4. QED
    BY <1>0, <2>1, <2>3, FS_CardinalityType, SMTT(30) DEF CountInv
<1>5. ASSUME NEW w \in Worker, NEW who \in Entity, NEW target \in Entity, NEW role \in Named,
             \/ AddCheck(w, who, target, role) \/ RoleCaller(w, who, target, role)
             \/ RemoveCheck(w, who, target) \/ LeaveCheck(w, who)
      PROVE  CountInv'
  BY <1>5, <1>a, JoinersKept
     DEF AddCheck, RoleCaller, RemoveCheck, LeaveCheck, JoinSteps, Ready
<1>6. ASSUME NEW w \in Worker,
             \/ AddInsert(w) \/ Remove(w) \/ LeaveList(w) \/ LeaveTransfer(w)
             \/ RoleTarget(w) \/ RoleUpdate(w)
      PROVE  CountInv'
  <2>1. \E r : Goto(w, r) /\ r.pc \notin JoinSteps /\ req[w].pc \notin JoinSteps
    BY <1>6 DEF AddInsert, Remove, LeaveList, LeaveTransfer, RoleTarget, RoleUpdate, Finish,
                Ready, JoinSteps, TypeOK, Request
  <2>2. UNCHANGED <<useCount, faults, admitted>>
    BY <1>6 DEF AddInsert, Remove, LeaveList, LeaveTransfer, RoleTarget, RoleUpdate
  <2>3. QED
    BY <2>1, <2>2, <1>a, JoinersKept
<1>7. ASSUME NEW e \in Entity,
             (\E m \in 0..MaxMsg : MarkAsRead(e, m)) \/ (\E p \in Pref : SetPref(e, p))
      PROVE  CountInv'
  BY <1>7, <1>b DEF MarkAsRead, SetPref
<1>8. CASE UNCHANGED vars
  BY <1>8, <1>b DEF vars
<1>9. ASSUME NEW w \in Worker, StatementFails(w) PROVE CountInv'
  <2>1. faults' = faults + 1 /\ useCount' = useCount /\ admitted' = admitted
    BY <1>9 DEF StatementFails
  <2>2. Joining' \in SUBSET Joining /\ Counting \subseteq Counting' \cup {w} /\ Counting' \in SUBSET Counting
    BY <1>9 DEF StatementFails, Finish, Goto, Joining, Counting, JoinSteps, Ready, TypeOK, Request
  <2>3. Cardinality(Joining') <= Cardinality(Joining) /\ Cardinality(Joining') \in Nat
    BY <1>0, <2>2, FS_Subset, FS_CardinalityType
  <2>4. Counting' = Counting \/ Counting' = Counting \ {w}
    BY <2>2
  <2>5. Cardinality(Counting') \in Nat /\ Cardinality(Counting) <= Cardinality(Counting') + 1
    <3>1. CASE Counting' = Counting
      BY <1>0, <3>1
    <3>2. CASE Counting' = Counting \ {w}
      <4>1. IsFiniteSet(Counting') /\ Cardinality(Counting') =
              IF w \in Counting THEN Cardinality(Counting) - 1 ELSE Cardinality(Counting)
        BY <1>0, <3>2, FS_RemoveElement
      <4>2. Cardinality(Counting') \in Nat
        BY <4>1, FS_CardinalityType
      <4>3. QED
        BY <1>0, <4>1, <4>2
    <3>3. QED
      BY <2>4, <3>1, <3>2
  <2>6. Cardinality(Worker) \in Nat
    BY FS_CardinalityType
  <2>7. QED
    BY <1>0, <2>1, <2>3, <2>5, <2>6 DEF CountInv
<1>10. QED
  <2>1. ASSUME NEW w \in Worker, Work(w) PROVE CountInv'
    <3>1. CASE \E who, target \in Entity, role \in Named :
                 AddCheck(w, who, target, role) \/ RoleCaller(w, who, target, role)
      BY <3>1, <1>5
    <3>2. CASE \E who, target \in Entity : RemoveCheck(w, who, target)
      BY <3>2, <1>a, JoinersKept DEF RemoveCheck, JoinSteps, Ready
    <3>3. CASE \E who \in Entity : LeaveCheck(w, who)
      BY <3>3, <1>a, JoinersKept DEF LeaveCheck, JoinSteps, Ready
    <3>4. QED
      BY <2>1, <3>1, <3>2, <3>3, <1>1, <1>2, <1>3, <1>4, <1>6, <1>9 DEF Work
  <2>2. QED
    BY <2>1, <1>7, <1>8 DEF Next

\* OverrunBounded and AdmittedCounted: use_count overruns max_uses by less than
\* the number of requests served at once, and no admission goes uncounted.
THEOREM MembershipInvites == Spec => [](OverrunBounded /\ AdmittedCounted)
<1>1. TypeOK /\ CountInv => OverrunBounded /\ AdmittedCounted
  BY Finite, FS_CardinalityType, MembershipAssumption
     DEF TypeOK, CountInv, OverrunBounded, AdmittedCounted, Joining, Counting
<1>2. QED
  BY MembershipTypes, InitCount, CountStep, <1>1, PTL DEF Spec
=============================================================================
