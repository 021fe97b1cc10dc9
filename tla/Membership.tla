----------------------------- MODULE Membership -----------------------------
(***************************************************************************)
(* Who takes part in one conversation and with which role: the rows of the *)
(* participants table, the requests that add, remove and promote           *)
(* participants, leaving with its transfer of ownership, and joining by an *)
(* invite link (internal/handler/conversation.go, invite.go and            *)
(* internal/store/postgres/participant.go, invite.go).                     *)
(*                                                                         *)
(* No handler runs in a transaction: each statement of a request is a step *)
(* of its own, and what an earlier statement read may be stale.            *)
(*                                                                         *)
(* An operator named X_Mutant is X with a plausible slip in it. No action  *)
(* uses it; it shows which property would notice.                          *)
(***************************************************************************)
EXTENDS Naturals, FiniteSets

CONSTANTS
  Entity,   \* users, bots and services
  Worker,   \* goroutines that serve requests, one request at a time
  None,     \* no entity
  Pref,     \* values of subscription mode, archived_at and pinned_at together
  Named,    \* roles that the bodies of add and role requests name
  MaxUses,  \* max_uses of the conversation's invite link
  MaxMsg,   \* bound: message ids that are marked read
  MaxFaults \* bound: statements that fail

ASSUME MembershipAssumption ==
  /\ None \notin Entity
  /\ IsFiniteSet(Entity) /\ IsFiniteSet(Worker)
  /\ Named \subseteq {"owner", "admin", "member", "observer"}
  /\ MaxUses \in Nat \ {0} /\ MaxMsg \in Nat /\ MaxFaults \in Nat

Role  == {"owner", "admin", "member", "observer"}
Row   == [state : {"none", "active", "left"}, role : Role, read : 0..MaxMsg, pref : Pref]
Steps == {"ready", "insert", "remove", "list", "transfer", "role_target", "role",
          "join_check", "join_insert", "join_count"}
Request == [pc : Steps, who : Entity \cup {None}, target : Entity \cup {None},
            role : Role, heir : Entity \cup {None}]

VARIABLES
  row,       \* participants table, one row per entity
  req,       \* the request each worker serves
  useCount,  \* use_count of the invite link
  faults,    \* statements that failed
  admitted   \* history: entities whose row a join by the link created

vars == <<row, req, useCount, faults, admitted>>

Ready == [pc |-> "ready", who |-> None, target |-> None, role |-> "member", heir |-> None]

\* what a handler has tested before a statement runs
RequestOK(r) ==
  /\ r.pc \in {"insert", "role_target", "role"} => r.target \in Entity /\ r.role # "owner"
  /\ r.pc \in {"remove", "list", "transfer"} => r.target \in Entity
  /\ r.pc \in {"list", "transfer", "join_check", "join_insert", "join_count"} => r.who \in Entity
  /\ r.pc = "transfer" => r.heir \in Entity

\* Types; a request that adds or promotes never names the role "owner".
TypeOK ==
  /\ row \in [Entity -> Row]
  /\ req \in [Worker -> Request]
  /\ \A w \in Worker : RequestOK(req[w])
  /\ useCount \in Nat /\ faults \in Nat
  /\ admitted \subseteq Entity

\* HandleCreateConversation made the creator owner and some others members
Init ==
  /\ \E creator \in Entity, members \in SUBSET Entity, p \in Pref :
       row = [e \in Entity |->
                [state |-> IF e = creator \/ e \in members THEN "active" ELSE "none",
                 role  |-> IF e = creator THEN "owner" ELSE "member",
                 read  |-> 0, pref |-> p]]
  /\ req = [w \in Worker |-> Ready]
  /\ useCount = 0 /\ faults = 0
  /\ admitted = {}

Active(e)  == row[e].state = "active"
Manager(e) == Active(e) /\ row[e].role \in {"owner", "admin"}
Present    == {e \in Entity : Active(e)}

Goto(w, r) == req' = [req EXCEPT ![w] = r]
Finish(w)  == Goto(w, Ready)
-----------------------------------------------------------------------------
(* The statements of participant.go and invite.go *)

\* AddParticipant: INSERT ... ON CONFLICT (conversation_id, entity_id) DO NOTHING
InsertRow_Mutant(e, role) ==
  row' = [row EXCEPT ![e] = [@ EXCEPT !.state = "active", !.role = role]]

InsertRow(e, role) ==
  row' = IF row[e].state = "none"
         THEN [row EXCEPT ![e] = [@ EXCEPT !.state = "active", !.role = role]]
         ELSE row

\* RemoveParticipant: SET left_at = NOW()
SetLeft(e) ==
  row' = IF row[e].state = "none" THEN row ELSE [row EXCEPT ![e].state = "left"]

\* UpdateParticipantRole ... WHERE left_at IS NULL
SetRole_Mutant(e, role) == row' = [row EXCEPT ![e].role = role]

SetRole(e, role) == row' = IF Active(e) THEN [row EXCEPT ![e].role = role] ELSE row
-----------------------------------------------------------------------------
(* HandleAddParticipant: owners and admins add anybody in any role but owner, *)
(* members add their own bots and friends as members                         *)
AddCheck(w, who, target, role) ==
  /\ req[w].pc = "ready"
  /\ Active(who)
  /\ role # "owner"
  /\ Manager(who) \/ role = "member"
  /\ Goto(w, [Ready EXCEPT !.pc = "insert", !.target = target, !.role = role])
  /\ UNCHANGED <<row, useCount, faults, admitted>>

AddInsert(w) ==
  /\ req[w].pc = "insert"
  /\ InsertRow(req[w].target, req[w].role)
  /\ Finish(w)
  /\ UNCHANGED <<useCount, faults, admitted>>

\* HandleRemoveParticipant: anybody for themselves, owners and admins for anybody,
\* the owner included; no transfer of ownership here
RemoveCheck(w, who, target) ==
  /\ req[w].pc = "ready"
  /\ Active(who)
  /\ target = who \/ Manager(who)
  /\ Goto(w, [Ready EXCEPT !.pc = "remove", !.target = target])
  /\ UNCHANGED <<row, useCount, faults, admitted>>

\* the RemoveParticipant of HandleRemoveParticipant and HandleLeaveConversation
Remove(w) ==
  /\ req[w].pc = "remove"
  /\ SetLeft(req[w].target)
  /\ Finish(w)
  /\ UNCHANGED <<useCount, faults, admitted>>
-----------------------------------------------------------------------------
(* HandleLeaveConversation *)
LeaveCheck(w, who) ==
  /\ req[w].pc = "ready"
  /\ Active(who)
  /\ Goto(w, [Ready EXCEPT !.pc = IF row[who].role = "owner" THEN "list" ELSE "remove",
                           !.who = who, !.target = who])
  /\ UNCHANGED <<row, useCount, faults, admitted>>

\* ListParticipants has no ORDER BY: the first admin in whatever order the
\* database returns, else the first other participant
Heirs(who) ==
  LET others == Present \ {who}
      admins == {e \in others : row[e].role = "admin"}
  IN IF admins # {} THEN admins ELSE others

LeaveList(w) ==
  LET who == req[w].who IN
  /\ req[w].pc = "list"
  /\ \/ /\ Heirs(who) = {}
        /\ Goto(w, [req[w] EXCEPT !.pc = "remove"])
     \/ \E h \in Heirs(who) : Goto(w, [req[w] EXCEPT !.pc = "transfer", !.heir = h])
  /\ UNCHANGED <<row, useCount, faults, admitted>>

\* the number of updated rows is ignored
LeaveTransfer(w) ==
  /\ req[w].pc = "transfer"
  /\ SetRole(req[w].heir, "owner")
  /\ Goto(w, [req[w] EXCEPT !.pc = "remove"])
  /\ UNCHANGED <<useCount, faults, admitted>>
-----------------------------------------------------------------------------
(* HandleUpdateParticipantRole *)
RoleCaller_Mutant(w, who, target, role) ==
  /\ req[w].pc = "ready"
  /\ Manager(who)
  /\ Goto(w, [Ready EXCEPT !.pc = "role_target", !.target = target, !.role = role])
  /\ UNCHANGED <<row, useCount, faults, admitted>>

RoleCaller(w, who, target, role) ==
  /\ req[w].pc = "ready"
  /\ Manager(who)
  /\ role # "owner"
  /\ Goto(w, [Ready EXCEPT !.pc = "role_target", !.target = target, !.role = role])
  /\ UNCHANGED <<row, useCount, faults, admitted>>

\* "participant not found" and "owner role cannot be changed here"
RoleTarget(w) ==
  LET t == req[w].target IN
  /\ req[w].pc = "role_target"
  /\ Goto(w, IF Active(t) /\ row[t].role # "owner" THEN [req[w] EXCEPT !.pc = "role"]
                                                   ELSE Ready)
  /\ UNCHANGED <<row, useCount, faults, admitted>>

RoleUpdate(w) ==
  /\ req[w].pc = "role"
  /\ SetRole(req[w].target, req[w].role)
  /\ Finish(w)
  /\ UNCHANGED <<useCount, faults, admitted>>
-----------------------------------------------------------------------------
(* HandleJoinViaInvite: read the link, test, insert, count *)
JoinRead_Mutant(w, who) ==
  /\ req[w].pc = "ready"
  /\ useCount <= MaxUses
  /\ Goto(w, [Ready EXCEPT !.pc = "join_check", !.who = who])
  /\ UNCHANGED <<row, useCount, faults, admitted>>

JoinRead(w, who) ==
  /\ req[w].pc = "ready"
  /\ useCount < MaxUses
  /\ Goto(w, [Ready EXCEPT !.pc = "join_check", !.who = who])
  /\ UNCHANGED <<row, useCount, faults, admitted>>

\* 409 for a participant
JoinCheck(w) ==
  /\ req[w].pc = "join_check"
  /\ Goto(w, IF Active(req[w].who) THEN Ready ELSE [req[w] EXCEPT !.pc = "join_insert"])
  /\ UNCHANGED <<row, useCount, faults, admitted>>

JoinInsert_Mutant(w) ==
  LET e == req[w].who IN
  /\ req[w].pc = "join_insert"
  /\ InsertRow(e, "member")
  /\ admitted' = IF row[e].state = "none" THEN admitted \cup {e} ELSE admitted
  /\ Finish(w)
  /\ UNCHANGED <<useCount, faults>>

JoinInsert(w) ==
  LET e == req[w].who IN
  /\ req[w].pc = "join_insert"
  /\ InsertRow(e, "member")
  /\ admitted' = IF row[e].state = "none" THEN admitted \cup {e} ELSE admitted
  /\ Goto(w, [req[w] EXCEPT !.pc = "join_count"])
  /\ UNCHANGED <<useCount, faults>>

\* IncrementInviteUseCount, without a test of max_uses
JoinCount(w) ==
  /\ req[w].pc = "join_count"
  /\ useCount' = useCount + 1
  /\ Finish(w)
  /\ UNCHANGED <<row, faults, admitted>>
-----------------------------------------------------------------------------
\* A statement fails. Most answer 500; errors are ignored by ListParticipants and
\* the transfer of HandleLeaveConversation, and by IsParticipant and
\* IncrementInviteUseCount of HandleJoinViaInvite.
StatementFails(w) ==
  /\ faults < MaxFaults
  /\ \/ /\ req[w].pc \in {"insert", "remove", "role_target", "role", "join_insert", "join_count"}
        /\ Finish(w)
     \/ /\ req[w].pc \in {"list", "transfer"}
        /\ Goto(w, [req[w] EXCEPT !.pc = "remove"])
     \/ /\ req[w].pc = "join_check"
        /\ Goto(w, [req[w] EXCEPT !.pc = "join_insert"])
  /\ faults' = faults + 1
  /\ UNCHANGED <<row, useCount, admitted>>
-----------------------------------------------------------------------------
(* Requests about the caller's own row, whose statements repeat the test of *)
(* left_at that the handler made before                                     *)

\* HandleMarkAsRead: SET last_read_message_id = GREATEST(last_read_message_id, ?)
MarkAsRead(e, m) ==
  /\ Active(e)
  /\ row' = [row EXCEPT ![e].read = IF m > @ THEN m ELSE @]
  /\ UNCHANGED <<req, useCount, faults, admitted>>

\* HandleUpdateSubscription, archive, unarchive, pin and unpin
SetPref(e, p) ==
  /\ Active(e)
  /\ row' = [row EXCEPT ![e].pref = p]
  /\ UNCHANGED <<req, useCount, faults, admitted>>
-----------------------------------------------------------------------------
Work(w) ==
  \/ \E who, target \in Entity, role \in Named :
       AddCheck(w, who, target, role) \/ RoleCaller(w, who, target, role)
  \/ \E who, target \in Entity : RemoveCheck(w, who, target)
  \/ \E who \in Entity : LeaveCheck(w, who) \/ JoinRead(w, who)
  \/ AddInsert(w) \/ Remove(w) \/ LeaveList(w) \/ LeaveTransfer(w)
  \/ RoleTarget(w) \/ RoleUpdate(w)
  \/ JoinCheck(w) \/ JoinInsert(w) \/ JoinCount(w)
  \/ StatementFails(w)

Next ==
  \/ \E w \in Worker : Work(w)
  \/ \E e \in Entity, m \in 0..MaxMsg : MarkAsRead(e, m)
  \/ \E e \in Entity, p \in Pref : SetPref(e, p)

Spec == Init /\ [][Next]_vars
-----------------------------------------------------------------------------
(* Properties *)

Owners == {e \in Present : row[e].role = "owner"}

\* Whatever was read before a participant departed, no later statement touches
\* the participant's row: no role, read mark or setting changes and the row never
\* becomes active again.
DepartedFrozen ==
  [][\A e \in Entity : row[e].state = "left" => row'[e] = row[e]]_vars

\* Read marks of two devices may arrive in any order; the mark never goes back.
ReadNeverGoesBack == [][\A e \in Entity : row'[e].read >= row[e].read]_vars

\* Joins that read the link before others counted overrun max_uses, by less than
\* the number of requests served at once.
OverrunBounded == useCount < MaxUses + Cardinality(Worker)

\* Every entity the link admitted is counted, or its request is about to count it,
\* or the statement that counts it failed.
AdmittedCounted ==
  Cardinality(admitted) <=
    useCount + faults + Cardinality({w \in Worker : req[w].pc = "join_count"})

\* Ownership is only handed on by a leaving owner: a conversation that lost its
\* owner, with no transfer under way, never has one again.
OwnerlessForever ==
  [][Owners = {} /\ (\A w \in Worker : req[w].pc \notin {"list", "transfer"})
       => Owners' = {}]_vars

\* Who owned the conversation from the start keeps the role for good, departing
\* included: HandleUpdateParticipantRole tests the target's role and writes later,
\* but only an heir, promoted in between, can be demoted by it.
FirstOwnerStays(e) == e \in Owners => [](row[e].role = "owner")

\* "Leave a conversation. Transfers ownership if the owner leaves." (docs): when an
\* owner who found an heir has left and somebody is still there, there is an owner.
LeavingLeavesOwner ==
  [][\A w \in Worker : req[w].pc = "remove" /\ req[w].heir # None /\ req'[w] = Ready
       => Present' = {} \/ Owners' # {}]_vars
=============================================================================
