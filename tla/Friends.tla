------------------------------ MODULE Friends ------------------------------
(***************************************************************************)
(* Friend requests, friendships and the direct conversations that          *)
(* friendship allows (internal/handler/friend.go,                          *)
(* internal/handler/conversation.go, internal/store/postgres/friend.go).   *)
(*                                                                         *)
(* Each statement of a request is a step of its own. A resolved request is *)
(* written back by its primary key alone, whatever became of the row since *)
(* it was read, and most failed reads count as "not found".                *)
(*                                                                         *)
(* An operator named X_Mutant is X with a plausible slip in it. No action  *)
(* uses it; it shows which property would notice.                          *)
(***************************************************************************)
EXTENDS Naturals

CONSTANTS
  Entity,    \* users, bots and services, all of them active
  Worker,    \* goroutines that serve requests, one request at a time
  RequestId, \* rows of friend_requests
  ConvId,    \* conversations of type direct
  None,      \* no entity
  Peers,     \* bound: <<e, f>> where e sends requests about f
  Receives,  \* entities whose friend_request_policy lets them receive requests
  Open,      \* <<e, f>> that may talk without friendship: owner and bot, bots
             \* of one owner, f a bot open to the platform
  MaxFaults  \* bound: statements that fail

ASSUME FriendsAssumption ==
  /\ None \notin Entity
  /\ Peers \subseteq {p \in Entity \X Entity : p[1] # p[2]}
  /\ Receives \subseteq Entity /\ Open \subseteq Entity \X Entity
  /\ MaxFaults \in Nat

Resolved   == {"accepted", "rejected", "canceled"}
RequestRow == [status : Resolved \cup {"free", "pending"},
               from : Entity \cup {None}, to : Entity \cup {None}, by : Entity \cup {None}]
ConvRow    == [by : Entity \cup {None}, peer : Entity \cup {None},
               members : SUBSET Entity, left : SUBSET Entity]
Asking     == {"find_mine", "find_reverse", "insert"}
Talking    == {"find_direct", "create", "add_me", "add_peer"}
Call == [pc : Asking \cup Talking \cup {"ready", "write", "befriend"},
         me : Entity \cup {None}, peer : Entity \cup {None},
         id : RequestId \cup ConvId \cup {None}, status : Resolved]

VARIABLES
  request,    \* friend_requests table
  friends,    \* friendships table: unordered pairs
  conv,       \* direct conversations and the states of their participants
  call,       \* the request each worker serves
  faults,     \* statements that failed
  agreed,     \* history: <<e, f>> where e asked f or accepted f's request
  befriended, \* history: pairs that were friends at some time
  missing     \* history: pairs whose friendship was deleted, or failed to be
              \* stored, since it was last stored

tables == <<request, friends, conv>>
past   == <<agreed, befriended, missing>>
vars   == <<tables, call, faults, past>>

Pair(e, f) == {e, f}
Pairs      == {Pair(e, f) : e, f \in Entity}
Ready      == [pc |-> "ready", me |-> None, peer |-> None, id |-> None, status |-> "accepted"]

\* what a handler has tested, or looked up, before a statement runs
CallOK(r, rows) ==
  /\ r.pc # "ready" => r.me \in Entity /\ r.peer \in Entity /\ r.me # r.peer
  /\ r.pc = "write" =>
       /\ r.id \in RequestId
       /\ rows[r.id].status # "free"
       /\ LET sides == <<rows[r.id].from, rows[r.id].to>> IN
            sides = IF r.status = "canceled" THEN <<r.me, r.peer>> ELSE <<r.peer, r.me>>
  /\ r.pc \in {"add_me", "add_peer"} => r.id \in ConvId

\* Types; a status is only written by the side that may write it.
TypeOK ==
  /\ request \in [RequestId -> RequestRow]
  /\ \A i \in RequestId : request[i].status # "free" =>
       {request[i].from, request[i].to} \subseteq Entity /\ request[i].from # request[i].to
  /\ friends \subseteq Pairs
  /\ conv \in [ConvId -> ConvRow] /\ faults \in Nat
  /\ call \in [Worker -> Call] /\ \A w \in Worker : CallOK(call[w], request)
  /\ agreed \subseteq Entity \X Entity
  /\ befriended \subseteq Pairs /\ missing \subseteq Pairs

Init ==
  /\ request = [i \in RequestId |-> [status |-> "free", from |-> None, to |-> None, by |-> None]]
  /\ conv = [c \in ConvId |-> [by |-> None, peer |-> None, members |-> {}, left |-> {}]]
  /\ call = [w \in Worker |-> Ready]
  /\ friends = {} /\ agreed = {} /\ befriended = {} /\ missing = {}
  /\ faults = 0

Goto(w, r) == call' = [call EXCEPT ![w] = r]
At(w, pc)  == Goto(w, [call[w] EXCEPT !.pc = pc])
Finish(w)  == Goto(w, Ready)
Fault      == faults < MaxFaults /\ faults' = faults + 1
Intact     == UNCHANGED faults

\* FindPendingFriendRequest
PendingAsk(e, f) ==
  {i \in RequestId : request[i].status = "pending" /\ request[i].from = e /\ request[i].to = f}

\* UpdateFriendRequest(ctx, req) ... WherePK(): whoever resolved the row meanwhile is overwritten
Update_Mutant(i, status, by) ==
  request' = [request EXCEPT ![i].status = status, ![i].by = IF @ = None THEN by ELSE @]

Update(i, status, by) ==
  request' = [request EXCEPT ![i].status = status, ![i].by = by]
-----------------------------------------------------------------------------
(* HandleCreateFriendRequest: three reads, each of which may fail unnoticed *)

AskCheck(w, me, peer) ==
  /\ call[w].pc = "ready" /\ <<me, peer>> \in Peers /\ peer \in Receives
  /\ (Pair(me, peer) \notin friends /\ Intact) \/ Fault
  /\ Goto(w, [Ready EXCEPT !.pc = "find_mine", !.me = me, !.peer = peer])
  /\ UNCHANGED <<tables, past>>

FindMine(w) ==
  /\ call[w].pc = "find_mine"
  /\ \/ PendingAsk(call[w].me, call[w].peer) # {} /\ Finish(w) /\ Intact
     \/ PendingAsk(call[w].me, call[w].peer) = {} /\ At(w, "find_reverse") /\ Intact
     \/ Fault /\ At(w, "find_reverse")
  /\ UNCHANGED <<tables, past>>

FindReverse_Mutant(w) ==
  LET reverse == PendingAsk(call[w].me, call[w].peer) IN
  /\ call[w].pc = "find_reverse"
  /\ \/ \E i \in reverse :
          Goto(w, [call[w] EXCEPT !.pc = "write", !.id = i, !.status = "accepted"]) /\ Intact
     \/ reverse = {} /\ At(w, "insert") /\ Intact
     \/ Fault /\ At(w, "insert")
  /\ UNCHANGED <<tables, past>>

FindReverse(w) ==
  LET reverse == PendingAsk(call[w].peer, call[w].me) IN
  /\ call[w].pc = "find_reverse"
  /\ \/ \E i \in reverse :
          Goto(w, [call[w] EXCEPT !.pc = "write", !.id = i, !.status = "accepted"]) /\ Intact
     \/ reverse = {} /\ At(w, "insert") /\ Intact
     \/ Fault /\ At(w, "insert")
  /\ UNCHANGED <<tables, past>>

\* CreateFriendRequest; the index on pending requests refuses a second one
Insert(w) ==
  /\ call[w].pc = "insert"
  /\ Finish(w)
  /\ \/ /\ PendingAsk(call[w].me, call[w].peer) = {}
        /\ \E i \in RequestId :
             /\ request[i].status = "free"
             /\ request' = [request EXCEPT ![i] =
                  [status |-> "pending", from |-> call[w].me, to |-> call[w].peer, by |-> None]]
        /\ agreed' = agreed \cup {<<call[w].me, call[w].peer>>}
        /\ Intact
     \/ PendingAsk(call[w].me, call[w].peer) # {} /\ UNCHANGED <<request, agreed>> /\ Intact
     \/ Fault /\ UNCHANGED <<request, agreed>>
  /\ UNCHANGED <<friends, conv, befriended, missing>>
-----------------------------------------------------------------------------
(* HandleAcceptFriendRequest, HandleRejectFriendRequest,                     *)
(* HandleCancelFriendRequest, and the acceptance of a reverse request        *)

\* the target accepts; accepting an accepted request stores the friendship again
AcceptRead_Mutant(w, me, i) ==
  /\ call[w].pc = "ready" /\ request[i].status = "pending"
  /\ \/ /\ me = request[i].to
        /\ Goto(w, [Ready EXCEPT !.pc = "write", !.me = me, !.peer = request[i].from, !.id = i])
     \/ /\ me = request[i].from
        /\ Goto(w, [Ready EXCEPT !.pc = "write", !.me = me, !.peer = request[i].to, !.id = i])
  /\ Intact /\ UNCHANGED <<tables, past>>

AcceptRead(w, me, i) ==
  /\ call[w].pc = "ready" /\ me = request[i].to
  /\ \/ /\ request[i].status = "pending"
        /\ Goto(w, [Ready EXCEPT !.pc = "write", !.me = me, !.peer = request[i].from, !.id = i])
     \/ /\ request[i].status = "accepted"
        /\ Goto(w, [Ready EXCEPT !.pc = "befriend", !.me = me, !.peer = request[i].from])
  /\ Intact /\ UNCHANGED <<tables, past>>

\* updateFriendRequestStatus: the target rejects, the source cancels
ResolveRead(w, me, i) ==
  /\ call[w].pc = "ready" /\ request[i].status = "pending"
  /\ \E status \in {"rejected", "canceled"} :
       /\ me = IF status = "rejected" THEN request[i].to ELSE request[i].from
       /\ Goto(w, [Ready EXCEPT !.pc = "write", !.me = me, !.id = i, !.status = status,
                                !.peer = IF me = request[i].to THEN request[i].from
                                                               ELSE request[i].to])
  /\ Intact /\ UNCHANGED <<tables, past>>

WriteStatus_Mutant(w) ==
  /\ call[w].pc = "write" /\ Finish(w)
  /\ \/ Update(call[w].id, call[w].status, call[w].me) /\ Intact
     \/ Fault /\ UNCHANGED request
  /\ agreed' = IF call[w].status = "accepted"
               THEN agreed \cup {<<call[w].me, call[w].peer>>} ELSE agreed
  /\ UNCHANGED <<friends, conv, befriended, missing>>

WriteStatus(w) ==
  /\ call[w].pc = "write"
  /\ \/ /\ Update(call[w].id, call[w].status, call[w].me)
        /\ IF call[w].status = "accepted"
           THEN At(w, "befriend") /\ agreed' = agreed \cup {<<call[w].me, call[w].peer>>}
           ELSE Finish(w) /\ UNCHANGED agreed
        /\ Intact
     \/ Fault /\ Finish(w) /\ UNCHANGED <<request, agreed>>
  /\ UNCHANGED <<friends, conv, befriended, missing>>

\* CreateFriendship: INSERT ... ON CONFLICT DO NOTHING
Befriend(w) ==
  LET pair == Pair(call[w].me, call[w].peer) IN
  /\ call[w].pc = "befriend" /\ Finish(w)
  /\ \/ /\ friends' = friends \cup {pair} /\ befriended' = befriended \cup {pair}
        /\ missing' = missing \ {pair} /\ Intact
     \/ /\ Fault /\ missing' = missing \cup {pair}
        /\ UNCHANGED <<friends, befriended>>
  /\ UNCHANGED <<request, conv, agreed>>

\* HandleDeleteFriend: one statement, for either side, whatever is pending
DeleteFriend(me, peer) ==
  /\ <<me, peer>> \in Peers /\ Pair(me, peer) \in friends
  /\ friends' = friends \ {Pair(me, peer)}
  /\ missing' = missing \cup {Pair(me, peer)}
  /\ UNCHANGED <<request, conv, call, faults, agreed, befriended>>
-----------------------------------------------------------------------------
(* HandleCreateConversation for a direct conversation *)

\* canStartDirectConversation
MayTalk_Mutant(me, peer) == <<peer, me>> \in Open \/ Pair(me, peer) \in friends
MayTalk(me, peer)        == <<me, peer>> \in Open \/ Pair(me, peer) \in friends

TalkCheck(w, me, peer) ==
  /\ call[w].pc = "ready" /\ <<me, peer>> \in Peers /\ MayTalk(me, peer)
  /\ Goto(w, [Ready EXCEPT !.pc = "find_direct", !.me = me, !.peer = peer])
  /\ Intact /\ UNCHANGED <<tables, past>>

\* FindDirectConversationByEntities: exactly these two take part
FindDirect(w) ==
  /\ call[w].pc = "find_direct"
  /\ \/ /\ IF \E c \in ConvId : conv[c].members = Pair(call[w].me, call[w].peer)
           THEN Finish(w) ELSE At(w, "create")
        /\ Intact
     \/ Fault /\ Finish(w)
  /\ UNCHANGED <<tables, past>>

CreateConversation(w) ==
  /\ call[w].pc = "create"
  /\ \/ /\ \E c \in ConvId :
             /\ conv[c].by = None
             /\ conv' = [conv EXCEPT ![c].by = call[w].me, ![c].peer = call[w].peer]
             /\ Goto(w, [call[w] EXCEPT !.pc = "add_me", !.id = c])
        /\ Intact
     \/ Fault /\ Finish(w) /\ UNCHANGED conv
  /\ UNCHANGED <<request, friends, past>>

\* the two AddParticipant of the handler
AddCreator(w) ==
  /\ call[w].pc = "add_me"
  /\ \/ /\ conv' = [conv EXCEPT ![call[w].id].members = @ \cup {call[w].me}]
        /\ At(w, "add_peer") /\ Intact
     \/ Fault /\ Finish(w) /\ UNCHANGED conv
  /\ UNCHANGED <<request, friends, past>>

AddPeer(w) ==
  /\ call[w].pc = "add_peer" /\ Finish(w)
  /\ \/ /\ conv' = [conv EXCEPT ![call[w].id].members =
                      @ \cup ({call[w].peer} \ conv[call[w].id].left)]
        /\ Intact
     \/ Fault /\ UNCHANGED conv
  /\ UNCHANGED <<request, friends, past>>

\* what Membership does to a direct conversation: somebody leaves or is removed
Depart(c, e) ==
  /\ e \in conv[c].members
  /\ conv' = [conv EXCEPT ![c].members = @ \ {e}, ![c].left = @ \cup {e}]
  /\ UNCHANGED <<request, friends, call, faults, past>>

\* ... or a manager adds somebody who never took part
Join(c, e) ==
  /\ conv[c].members # {} /\ e \notin conv[c].members \cup conv[c].left
  /\ conv' = [conv EXCEPT ![c].members = @ \cup {e}]
  /\ UNCHANGED <<request, friends, call, faults, past>>
-----------------------------------------------------------------------------
Next ==
  \/ \E w \in Worker :
       \/ \E me, peer \in Entity : AskCheck(w, me, peer) \/ TalkCheck(w, me, peer)
       \/ \E me \in Entity, i \in RequestId : AcceptRead(w, me, i) \/ ResolveRead(w, me, i)
       \/ FindMine(w) \/ FindReverse(w) \/ Insert(w) \/ WriteStatus(w) \/ Befriend(w)
       \/ FindDirect(w) \/ CreateConversation(w) \/ AddCreator(w) \/ AddPeer(w)
  \/ \E me, peer \in Entity : DeleteFriend(me, peer)
  \/ \E c \in ConvId, e \in Entity : Depart(c, e) \/ Join(c, e)

Spec == Init /\ [][Next]_vars
-----------------------------------------------------------------------------
(* Properties *)

\* Nobody is made a friend without having asked or accepted, however requests,
\* acceptances, retries of an acceptance and deletions overlap.
Consented ==
  \A e, f \in Entity : Pair(e, f) \in befriended => {<<e, f>>, <<f, e>>} \subseteq agreed

\* The status of a request and who resolved it belong together, also when two
\* resolutions of it overlap: the target accepts and rejects, the source cancels.
ResolverMatches ==
  \A i \in RequestId :
    /\ request[i].status \in {"accepted", "rejected"} => request[i].by = request[i].to
    /\ request[i].status = "canceled" => request[i].by = request[i].from

\* An accepted request has its friendship, unless the request that accepts it is
\* about to store it, or storing it failed, or it was deleted since.
AcceptedBefriends ==
  \A i \in RequestId : request[i].status = "accepted" =>
    LET pair == Pair(request[i].from, request[i].to) IN
    \/ pair \in friends \cup missing
    \/ \E w \in Worker : call[w].pc = "befriend" /\ Pair(call[w].me, call[w].peer) = pair

\* Who starts a direct conversation was a friend of the other, or needed not be:
\* friendship may end between the check and the creation.
TalkNeedsFriends ==
  \A c \in ConvId : conv[c].by # None =>
    <<conv[c].by, conv[c].peer>> \in Open \/ Pair(conv[c].by, conv[c].peer) \in befriended
=============================================================================
