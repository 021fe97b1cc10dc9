--------------------------- MODULE FriendsProofs ---------------------------
(***************************************************************************)
(* Proofs about friend requests and friendships, for any number of         *)
(* entities, rows and requests served at once.                             *)
(***************************************************************************)
EXTENDS Friends, TLAPS

Calls == Asking \cup Talking \cup {"ready", "write", "befriend"}

\* What the rows, the calls in progress and the history have to do with each other
RowsInv ==
  \A i \in RequestId : request[i].status # "free" =>
    /\ <<request[i].from, request[i].to>> \in agreed
    /\ request[i].status = "accepted" => <<request[i].to, request[i].from>> \in agreed
CallsInv ==
  \A w \in Worker :
    /\ call[w].pc = "befriend" =>
         {<<call[w].me, call[w].peer>>, <<call[w].peer, call[w].me>>} \subseteq agreed
    /\ call[w].pc \in Talking =>
         <<call[w].me, call[w].peer>> \in Open \/ Pair(call[w].me, call[w].peer) \in befriended
ConsentInv == friends \subseteq befriended /\ Consented

\* An unordered pair determines its two sides.
LEMMA PairSides ==
  ASSUME NEW a, NEW b, NEW c, NEW d, Pair(a, b) = Pair(c, d)
  PROVE  (a = c /\ b = d) \/ (a = d /\ b = c)
BY DEF Pair

\* The order of the two sides does not matter.
LEMMA PairFlips ==
  ASSUME NEW a, NEW b
  PROVE  Pair(a, b) = Pair(b, a)
BY DEF Pair

LEMMA ReadyCall == Ready \in Call /\ CallOK(Ready, request')
BY DEF Ready, Call, CallOK, Resolved

\* Old calls stay good when no row in use changes its two sides.
Stable == \A i \in RequestId : request[i].status # "free" =>
            /\ request'[i].status # "free"
            /\ request'[i].from = request[i].from /\ request'[i].to = request[i].to

\* One worker moves to a good call.
LEMMA GotoOK ==
  ASSUME TypeOK, Stable, NEW w \in Worker, NEW r \in Call, CallOK(r, request'), Goto(w, r)
  PROVE  call' \in [Worker -> Call] /\ \A v \in Worker : CallOK(call'[v], request')
<1>1. call' = [call EXCEPT ![w] = r] /\ call \in [Worker -> Call]
  BY DEF Goto, TypeOK
<1>2. ASSUME NEW v \in Worker PROVE CallOK(call'[v], request')
  <2>1. CASE v = w
    BY <1>1, <2>1
  <2>2. CASE v # w
    <3>1. call'[v] = call[v] /\ CallOK(call[v], request)
      BY <1>1, <2>2 DEF TypeOK
    <3>2. QED
      BY <3>1 DEF CallOK, Stable
  <2>3. QED
    BY <2>1, <2>2
<1>3. QED
  BY <1>1, <1>2

\* One worker moves to another step of the same call.
LEMMA AtOK ==
  ASSUME TypeOK, Stable, NEW w \in Worker, NEW pc \in Calls \ {"write"}, At(w, pc),
         call[w].pc # "ready", pc \in {"add_me", "add_peer"} => call[w].id \in ConvId
  PROVE  call' \in [Worker -> Call] /\ \A v \in Worker : CallOK(call'[v], request')
<1> DEFINE r == [call[w] EXCEPT !.pc = pc]
<1>1. call[w] \in Call /\ CallOK(call[w], request)
  BY DEF TypeOK
<1>2. r \in Call /\ CallOK(r, request')
  BY <1>1 DEF Call, Calls, CallOK
<1>3. QED
  BY <1>2, GotoOK DEF At

LEMMA FinishOK ==
  ASSUME TypeOK, Stable, NEW w \in Worker, Finish(w)
  PROVE  call' \in [Worker -> Call] /\ \A v \in Worker : CallOK(call'[v], request')
<1>1. CallOK(Ready, request')
  BY DEF Ready, CallOK
<1>2. QED
  BY <1>1, ReadyCall, GotoOK DEF Finish
-----------------------------------------------------------------------------
(* Types *)

LEMMA InitType == Init => TypeOK
<1> SUFFICES ASSUME Init PROVE TypeOK
  OBVIOUS
<1>1. request \in [RequestId -> RequestRow]
  BY DEF Init, RequestRow
<1>2. conv \in [ConvId -> ConvRow]
  BY DEF Init, ConvRow
<1>3. call \in [Worker -> Call] /\ \A w \in Worker : CallOK(call[w], request)
  <2>1. call = [w \in Worker |-> Ready]
    BY DEF Init
  <2>2. Ready \in Call /\ CallOK(Ready, request)
    BY ReadyCall DEF Ready, CallOK
  <2>3. QED
    BY <2>1, <2>2
<1>4. \A i \in RequestId : request[i].status = "free"
  BY DEF Init
<1>5. /\ friends \subseteq Pairs /\ faults \in Nat /\ agreed \subseteq Entity \X Entity
      /\ befriended \subseteq Pairs /\ missing \subseteq Pairs
  BY DEF Init
<1>6. QED
  BY <1>1, <1>2, <1>3, <1>4, <1>5, Zenon DEF TypeOK

\* Steps that only read move one call, and perhaps count a fault.
Reads(w) ==
  \/ \E me, peer \in Entity : AskCheck(w, me, peer) \/ TalkCheck(w, me, peer)
  \/ \E me \in Entity, i \in RequestId : AcceptRead(w, me, i) \/ ResolveRead(w, me, i)
  \/ FindMine(w) \/ FindReverse(w) \/ FindDirect(w)

LEMMA ReadsKeep ==
  ASSUME NEW w \in Worker, Reads(w)
  PROVE  UNCHANGED <<tables, past>> /\ (Intact \/ Fault)
BY DEF Reads, AskCheck, TalkCheck, AcceptRead, ResolveRead, FindMine, FindReverse, FindDirect

LEMMA ReadStep ==
  ASSUME TypeOK, NEW w \in Worker, Reads(w)
  PROVE  TypeOK'
<1> USE FriendsAssumption
<1>0. UNCHANGED <<tables, past>>
  BY ReadsKeep
<1>1. Stable /\ call[w] \in Call /\ CallOK(call[w], request) /\ request' = request
  BY <1>0 DEF Stable, tables, TypeOK
<1>2. faults' \in Nat
  BY ReadsKeep DEF TypeOK, Fault, Intact
<1>3. call' \in [Worker -> Call] /\ \A v \in Worker : CallOK(call'[v], request')
  <2>1. ASSUME NEW me \in Entity, NEW peer \in Entity, AskCheck(w, me, peer)
        PROVE  call' \in [Worker -> Call] /\ \A v \in Worker : CallOK(call'[v], request')
    <3> DEFINE r == [Ready EXCEPT !.pc = "find_mine", !.me = me, !.peer = peer]
    <3>1. r \in Call /\ CallOK(r, request')
      BY <2>1 DEF AskCheck, Ready, Call, Asking, Resolved, CallOK
    <3>2. QED
      BY <1>1, <2>1, <3>1, GotoOK DEF AskCheck
  <2>2. ASSUME NEW me \in Entity, NEW peer \in Entity, TalkCheck(w, me, peer)
        PROVE  call' \in [Worker -> Call] /\ \A v \in Worker : CallOK(call'[v], request')
    <3> DEFINE r == [Ready EXCEPT !.pc = "find_direct", !.me = me, !.peer = peer]
    <3>1. r \in Call /\ CallOK(r, request')
      BY <2>2 DEF TalkCheck, Ready, Call, Talking, Resolved, CallOK
    <3>2. QED
      BY <1>1, <2>2, <3>1, GotoOK DEF TalkCheck
  <2>3. ASSUME NEW me \in Entity, NEW i \in RequestId, AcceptRead(w, me, i)
        PROVE  call' \in [Worker -> Call] /\ \A v \in Worker : CallOK(call'[v], request')
    <3> DEFINE r == [Ready EXCEPT !.pc = "write", !.me = me, !.peer = request[i].from, !.id = i]
               q == [Ready EXCEPT !.pc = "befriend", !.me = me, !.peer = request[i].from]
    <3>1. request[i].from \in Entity /\ request[i].from # me
      BY <2>3 DEF AcceptRead, TypeOK
    <3>2. /\ q \in Call /\ CallOK(q, request')
          /\ request[i].status = "pending" => r \in Call /\ CallOK(r, request')
      BY <1>1, <2>3, <3>1, ZenonT(40) DEF AcceptRead, Ready, Call, Resolved, CallOK, TypeOK
    <3>3. QED
      BY <1>1, <2>3, <3>2, GotoOK DEF AcceptRead
  <2>4. ASSUME NEW me \in Entity, NEW i \in RequestId, ResolveRead(w, me, i)
        PROVE  call' \in [Worker -> Call] /\ \A v \in Worker : CallOK(call'[v], request')
    <3>1. PICK status \in {"rejected", "canceled"} :
            /\ me = IF status = "rejected" THEN request[i].to ELSE request[i].from
            /\ Goto(w, [Ready EXCEPT !.pc = "write", !.me = me, !.id = i, !.status = status,
                          !.peer = IF me = request[i].to THEN request[i].from ELSE request[i].to])
      BY <2>4 DEF ResolveRead
    <3> DEFINE r == [Ready EXCEPT !.pc = "write", !.me = me, !.id = i, !.status = status,
                          !.peer = IF me = request[i].to THEN request[i].from ELSE request[i].to]
    <3>2. request[i].from \in Entity /\ request[i].to \in Entity /\ request[i].from # request[i].to
      BY <2>4 DEF ResolveRead, TypeOK
    <3>3. r \in Call /\ CallOK(r, request')
      BY <1>1, <2>4, <3>1, <3>2, ZenonT(40) DEF ResolveRead, Ready, Call, Resolved, CallOK
    <3>4. QED
      BY <1>1, <3>1, <3>3, GotoOK
  <2>5. CASE FindMine(w)
    BY <1>1, <2>5, AtOK, FinishOK DEF FindMine, Calls, Asking
  <2>6. CASE FindReverse(w)
    <3>1. CASE At(w, "insert")
      BY <1>1, <2>6, <3>1, AtOK DEF FindReverse, Calls, Asking
    <3>2. CASE ~At(w, "insert")
      <4>1. PICK j \in PendingAsk(call[w].peer, call[w].me) :
              Goto(w, [call[w] EXCEPT !.pc = "write", !.id = j, !.status = "accepted"])
        BY <2>6, <3>2 DEF FindReverse
      <4> DEFINE r == [call[w] EXCEPT !.pc = "write", !.id = j, !.status = "accepted"]
      <4>2. r \in Call /\ CallOK(r, request')
        BY <1>1, <2>6, <4>1 DEF FindReverse, PendingAsk, Call, Resolved, CallOK
      <4>3. QED
        BY <1>1, <4>1, <4>2, GotoOK
    <3>3. QED
      BY <3>1, <3>2
  <2>7. CASE FindDirect(w)
    BY <1>1, <2>7, AtOK, FinishOK DEF FindDirect, Calls, Talking
  <2>8. QED
    BY <2>1, <2>2, <2>3, <2>4, <2>5, <2>6, <2>7 DEF Reads
<1>4. QED
  BY <1>0, <1>2, <1>3 DEF TypeOK, tables, past

\* Steps that write a table
LEMMA WriteStep ==
  ASSUME TypeOK, NEW w \in Worker,
         \/ Insert(w) \/ WriteStatus(w) \/ Befriend(w)
         \/ CreateConversation(w) \/ AddCreator(w) \/ AddPeer(w)
  PROVE  TypeOK'
<1> USE FriendsAssumption
<1>1. call[w] \in Call /\ CallOK(call[w], request)
  BY DEF TypeOK
<1>2. call[w].me \in Entity /\ call[w].peer \in Entity /\ call[w].me # call[w].peer
  BY <1>1 DEF CallOK, Insert, WriteStatus, Befriend, CreateConversation, AddCreator, AddPeer
<1>3. faults' \in Nat
  <2>1. Intact \/ Fault
    BY DEF Insert, WriteStatus, Befriend, CreateConversation, AddCreator, AddPeer
  <2>2. QED
    BY <2>1 DEF TypeOK, Fault, Intact
<1>4. Pair(call[w].me, call[w].peer) \in Pairs
  BY <1>2 DEF Pairs
<1>5. CASE Insert(w)
  <2>1. /\ request' \in [RequestId -> RequestRow] /\ Stable
        /\ \A i \in RequestId : request'[i].status # "free" =>
             {request'[i].from, request'[i].to} \subseteq Entity /\ request'[i].from # request'[i].to
    BY <1>2, <1>5 DEF TypeOK, Insert, RequestRow, Stable
  <2>2. agreed' \subseteq Entity \X Entity
    BY <1>2, <1>5 DEF TypeOK, Insert
  <2>3. QED
    BY <1>3, <1>5, <2>1, <2>2, FinishOK DEF TypeOK, Insert
<1>6. CASE WriteStatus(w)
  <2>1. /\ request' \in [RequestId -> RequestRow] /\ Stable
        /\ \A i \in RequestId : request'[i].status # "free" =>
             {request'[i].from, request'[i].to} \subseteq Entity /\ request'[i].from # request'[i].to
    <3>1. CASE request' = request
      BY <3>1 DEF TypeOK, Stable
    <3>2. CASE Update(call[w].id, call[w].status, call[w].me)
      <4>1. call[w].id \in RequestId /\ call[w].status \in Resolved
            /\ request[call[w].id].status # "free"
        BY <1>1, <1>6 DEF WriteStatus, CallOK, Call
      <4> DEFINE k == call[w].id
                 row == [request[k] EXCEPT !.status = call[w].status, !.by = call[w].me]
      <4>2. request' = [request EXCEPT ![k] = row]
        BY <1>2, <3>2, <4>1 DEF TypeOK, Update, RequestRow
      <4>3. row \in RequestRow /\ row.status # "free"
            /\ row.from = request[k].from /\ row.to = request[k].to
        <5>1. request[k] \in RequestRow
          BY <4>1 DEF TypeOK
        <5>2. call[w].status \in Resolved /\ call[w].me \in Entity
          BY <1>2, <4>1
        <5>3. call[w].status # "free"
          BY <5>2 DEF Resolved
        <5> HIDE DEF k
        <5>4. QED
          BY <5>1, <5>2, <5>3 DEF RequestRow
      <4> HIDE DEF row, k
      <4>4. request \in [RequestId -> RequestRow] /\ k \in RequestId
        BY <4>1 DEF TypeOK, k
      <4>5. request' \in [RequestId -> RequestRow] /\ request'[k] = row
            /\ \A i \in RequestId \ {k} : request'[i] = request[i]
        BY <4>2, <4>3, <4>4
      <4>6. Stable
        BY <4>3, <4>5 DEF Stable
      <4>7. QED
        BY <4>1, <4>3, <4>5, <4>6 DEF TypeOK, k
    <3>3. QED
      BY <1>6, <3>1, <3>2 DEF WriteStatus
  <2>2. agreed' \subseteq Entity \X Entity
    BY <1>2, <1>6 DEF TypeOK, WriteStatus
  <2>3. call' \in [Worker -> Call] /\ \A v \in Worker : CallOK(call'[v], request')
    BY <1>6, <2>1, AtOK, FinishOK DEF WriteStatus, Calls
  <2>4. QED
    BY <1>3, <1>6, <2>1, <2>2, <2>3 DEF TypeOK, WriteStatus
<1>7. CASE Befriend(w)
  <2>1. Stable /\ request' = request
    BY <1>7 DEF Befriend, Stable
  <2>2. call' \in [Worker -> Call] /\ \A v \in Worker : CallOK(call'[v], request')
    BY <1>7, <2>1, FinishOK DEF Befriend
  <2>3. friends' \subseteq Pairs /\ befriended' \subseteq Pairs /\ missing' \subseteq Pairs
    BY <1>4, <1>7 DEF TypeOK, Befriend
  <2>4. QED
    BY <1>3, <1>7, <2>1, <2>2, <2>3 DEF TypeOK, Befriend
<1>8. CASE CreateConversation(w)
  <2>1. Stable /\ request' = request /\ UNCHANGED <<friends, agreed, befriended, missing>>
    BY <1>8 DEF CreateConversation, Stable, past
  <2>2. /\ call' \in [Worker -> Call] /\ \A v \in Worker : CallOK(call'[v], request')
        /\ conv' \in [ConvId -> ConvRow]
    <3>1. CASE Finish(w) /\ conv' = conv
      BY <2>1, <3>1, FinishOK DEF TypeOK
    <3>2. ASSUME NEW c \in ConvId,
                 conv' = [conv EXCEPT ![c].by = call[w].me, ![c].peer = call[w].peer],
                 Goto(w, [call[w] EXCEPT !.pc = "add_me", !.id = c])
          PROVE  /\ call' \in [Worker -> Call] /\ \A v \in Worker : CallOK(call'[v], request')
                 /\ conv' \in [ConvId -> ConvRow]
      <4> DEFINE r == [call[w] EXCEPT !.pc = "add_me", !.id = c]
      <4>1. r \in Call /\ CallOK(r, request')
        BY <1>1, <1>2 DEF Call, Talking, CallOK
      <4>2. conv' \in [ConvId -> ConvRow]
        BY <1>2, <3>2, ZenonT(40) DEF TypeOK, ConvRow
      <4>3. QED
        BY <2>1, <3>2, <4>1, <4>2, GotoOK
    <3>3. QED
      BY <1>8, <3>1, <3>2 DEF CreateConversation
  <2>3. QED
    BY <1>3, <2>1, <2>2 DEF TypeOK
<1>9. CASE AddCreator(w) \/ AddPeer(w)
  <2>1. Stable /\ request' = request /\ UNCHANGED <<friends, past>>
    BY <1>9 DEF AddCreator, AddPeer, Stable
  <2>2. call[w].id \in ConvId /\ call[w].pc # "ready"
    BY <1>1, <1>9 DEF AddCreator, AddPeer, CallOK
  <2>3. call' \in [Worker -> Call] /\ \A v \in Worker : CallOK(call'[v], request')
    BY <1>9, <2>1, <2>2, AtOK, FinishOK DEF AddCreator, AddPeer, Calls, Talking
  <2>4. conv' \in [ConvId -> ConvRow]
    BY <1>2, <1>9, <2>2 DEF TypeOK, ConvRow, AddCreator, AddPeer
  <2>5. QED
    BY <1>3, <2>1, <2>3, <2>4 DEF TypeOK, past
<1>10. QED
  BY <1>5, <1>6, <1>7, <1>8, <1>9

\* Steps outside any worker
LEMMA OtherStep ==
  ASSUME TypeOK, \/ \E me, peer \in Entity : DeleteFriend(me, peer)
                 \/ \E c \in ConvId, e \in Entity : Depart(c, e) \/ Join(c, e)
  PROVE  TypeOK'
<1>1. request' = request /\ call' = call /\ faults' = faults
      /\ agreed' = agreed /\ befriended' = befriended
  BY DEF DeleteFriend, Depart, Join, past
<1>2. conv' \in [ConvId -> ConvRow]
  <2>1. CASE \E me, peer \in Entity : DeleteFriend(me, peer)
    BY <2>1 DEF TypeOK, DeleteFriend
  <2>2. ASSUME NEW c \in ConvId, NEW e \in Entity, Depart(c, e) \/ Join(c, e)
        PROVE  conv' \in [ConvId -> ConvRow]
    BY <2>2 DEF TypeOK, Depart, Join, ConvRow
  <2>3. QED
    BY <2>1, <2>2
<1>3. friends' \subseteq Pairs /\ missing' \subseteq Pairs
  <2>1. ASSUME NEW me \in Entity, NEW peer \in Entity, DeleteFriend(me, peer)
        PROVE  friends' \subseteq Pairs /\ missing' \subseteq Pairs
    BY <2>1 DEF TypeOK, DeleteFriend
  <2>2. CASE \E c \in ConvId, e \in Entity : Depart(c, e) \/ Join(c, e)
    BY <2>2 DEF TypeOK, Depart, Join, past
  <2>3. QED
    BY <2>1, <2>2
<1>4. QED
  BY <1>1, <1>2, <1>3 DEF TypeOK

LEMMA TypeStep ==
  ASSUME TypeOK, [Next]_vars
  PROVE  TypeOK'
<1>1. CASE UNCHANGED vars
  BY <1>1 DEF TypeOK, vars, tables, past
<1>2. QED
  BY <1>1, ReadStep, WriteStep, OtherStep, Zenon DEF Next, Reads
-----------------------------------------------------------------------------
(* Consent and the agreement of the two tables *)

SafeInv ==
  RowsInv /\ CallsInv /\ ConsentInv /\ ResolverMatches /\ AcceptedBefriends /\ TalkNeedsFriends

\* Calls of the other workers are as they were.
LEMMA OthersKept ==
  ASSUME TypeOK, NEW w \in Worker, NEW r, Goto(w, r)
  PROVE  call'[w] = r /\ \A v \in Worker : v # w => call'[v] = call[v]
BY DEF TypeOK, Goto

\* What a call may rely on survives when the history only grows.
LEMMA CallsStep ==
  ASSUME TypeOK, CallsInv, NEW w \in Worker, NEW r, Goto(w, r),
         agreed \subseteq agreed', befriended \subseteq befriended',
         r.pc = "befriend" => {<<r.me, r.peer>>, <<r.peer, r.me>>} \subseteq agreed',
         r.pc \in Talking => <<r.me, r.peer>> \in Open \/ Pair(r.me, r.peer) \in befriended'
  PROVE  CallsInv'
<1> SUFFICES ASSUME NEW v \in Worker
             PROVE  /\ call'[v].pc = "befriend" =>
                         {<<call'[v].me, call'[v].peer>>, <<call'[v].peer, call'[v].me>>} \subseteq agreed'
                    /\ call'[v].pc \in Talking =>
                         \/ <<call'[v].me, call'[v].peer>> \in Open
                         \/ Pair(call'[v].me, call'[v].peer) \in befriended'
  BY DEF CallsInv
<1>1. CASE v = w
  BY <1>1, OthersKept
<1>2. CASE v # w
  BY <1>2, OthersKept DEF CallsInv
<1>3. QED
  BY <1>1, <1>2

\* A worker that was not about to store a friendship moves.
LEMMA AcceptedStep ==
  ASSUME TypeOK, AcceptedBefriends, NEW w \in Worker, NEW r, Goto(w, r),
         call[w].pc # "befriend", UNCHANGED <<friends, missing>>,
         \A i \in RequestId : request'[i].status = "accepted" =>
           /\ request[i].status = "accepted"
           /\ request'[i].from = request[i].from /\ request'[i].to = request[i].to
  PROVE  AcceptedBefriends'
<1> SUFFICES ASSUME NEW i \in RequestId, request'[i].status = "accepted",
                    Pair(request'[i].from, request'[i].to) \notin friends \cup missing
             PROVE  \E v \in Worker :
                      /\ call'[v].pc = "befriend"
                      /\ Pair(call'[v].me, call'[v].peer) = Pair(request'[i].from, request'[i].to)
  BY DEF AcceptedBefriends
<1>1. PICK v \in Worker :
        /\ call[v].pc = "befriend"
        /\ Pair(call[v].me, call[v].peer) = Pair(request[i].from, request[i].to)
  BY DEF AcceptedBefriends
<1>2. call'[v] = call[v]
  BY <1>1, OthersKept
<1>3. QED
  BY <1>1, <1>2

LEMMA InitSafe == Init => SafeInv
<1> SUFFICES ASSUME Init PROVE SafeInv
  OBVIOUS
<1>1. RowsInv /\ ResolverMatches /\ AcceptedBefriends
  BY DEF Init, RowsInv, ResolverMatches, AcceptedBefriends
<1>2. CallsInv
  <2>1. \A w \in Worker : call[w].pc = "ready"
    BY DEF Init, Ready
  <2>2. QED
    BY <2>1 DEF CallsInv, Talking
<1>3. ConsentInv /\ TalkNeedsFriends
  BY DEF Init, ConsentInv, Consented, TalkNeedsFriends
<1>4. QED
  BY <1>1, <1>2, <1>3 DEF SafeInv

\* The worker moves to a call that relies on nothing it may not.
Good(w) ==
  /\ call[w].pc # "befriend"
  /\ \E r : /\ Goto(w, r)
            /\ r.pc = "befriend" => {<<r.me, r.peer>>, <<r.peer, r.me>>} \subseteq agreed
            /\ r.pc \in Talking =>
                 <<r.me, r.peer>> \in Open \/ Pair(r.me, r.peer) \in befriended

LEMMA GoodGoto ==
  ASSUME NEW w \in Worker, call[w].pc # "befriend", NEW r, Goto(w, r),
         r.pc \in Calls \ (Talking \cup {"befriend"})
  PROVE  Good(w)
BY DEF Good

LEMMA GoodAt ==
  ASSUME TypeOK, NEW w \in Worker, call[w].pc # "befriend", NEW pc, At(w, pc),
         pc \in Calls \ (Talking \cup {"befriend"})
  PROVE  Good(w)
<1> DEFINE r == [call[w] EXCEPT !.pc = pc]
<1>1. r.pc = pc
  BY DEF TypeOK, Call
<1>2. QED
  BY <1>1, GoodGoto DEF At

LEMMA GoodFinish ==
  ASSUME NEW w \in Worker, call[w].pc # "befriend", Finish(w)
  PROVE  Good(w)
<1>1. Ready.pc = "ready" /\ "ready" \in Calls \ (Talking \cup {"befriend"})
  BY DEF Ready, Calls, Talking
<1>2. QED
  BY <1>1, GoodGoto DEF Finish

LEMMA ReadSafe ==
  ASSUME TypeOK, SafeInv, NEW w \in Worker, Reads(w)
  PROVE  SafeInv'
<1>1. UNCHANGED <<tables, past>>
  BY ReadsKeep
<1>2. (RowsInv /\ ConsentInv /\ ResolverMatches /\ TalkNeedsFriends)'
  BY <1>1 DEF SafeInv, RowsInv, ConsentInv, Consented, ResolverMatches, TalkNeedsFriends, tables, past
<1>3. Good(w)
  <2> USE DEF Good
  <2>0. call[w] \in Call
    BY DEF TypeOK
  <2>1. ASSUME NEW me \in Entity, NEW peer \in Entity, AskCheck(w, me, peer)
        PROVE  Good(w)
    <3> DEFINE r == [Ready EXCEPT !.pc = "find_mine", !.me = me, !.peer = peer]
    <3>1. r.pc = "find_mine"
      BY DEF Ready
    <3>2. QED
      BY <2>1, <3>1, GoodGoto DEF AskCheck, Calls, Asking, Talking
  <2>2. ASSUME NEW me \in Entity, NEW peer \in Entity, TalkCheck(w, me, peer)
        PROVE  Good(w)
    <3> DEFINE r == [Ready EXCEPT !.pc = "find_direct", !.me = me, !.peer = peer]
    <3>1. r.pc = "find_direct" /\ r.me = me /\ r.peer = peer
      BY DEF Ready
    <3>2. <<me, peer>> \in Open \/ Pair(me, peer) \in befriended
      BY <2>2 DEF TalkCheck, MayTalk, SafeInv, ConsentInv
    <3>3. QED
      BY <2>2, <3>1, <3>2 DEF TalkCheck
  <2>3. ASSUME NEW me \in Entity, NEW i \in RequestId, AcceptRead(w, me, i)
        PROVE  Good(w)
    <3>1. CASE request[i].status = "pending"
      <4> DEFINE r == [Ready EXCEPT !.pc = "write", !.me = me, !.peer = request[i].from, !.id = i]
      <4>1. r.pc = "write"
        BY DEF Ready
      <4>2. QED
        BY <2>3, <3>1, <4>1, GoodGoto DEF AcceptRead, Calls, Talking
    <3>2. CASE request[i].status = "accepted"
      <4> DEFINE r == [Ready EXCEPT !.pc = "befriend", !.me = me, !.peer = request[i].from]
      <4>1. r.pc = "befriend" /\ r.me = request[i].to /\ r.peer = request[i].from
        BY <2>3 DEF Ready, AcceptRead
      <4>2. {<<r.me, r.peer>>, <<r.peer, r.me>>} \subseteq agreed
        BY <3>2, <4>1 DEF SafeInv, RowsInv
      <4>3. call[w].pc # "befriend" /\ Goto(w, r)
        BY <2>3, <3>2 DEF AcceptRead
      <4>4. QED
        BY <4>1, <4>2, <4>3 DEF Talking
    <3>3. QED
      BY <2>3, <3>1, <3>2 DEF AcceptRead
  <2>4. ASSUME NEW me \in Entity, NEW i \in RequestId, ResolveRead(w, me, i)
        PROVE  Good(w)
    <3>1. PICK status \in {"rejected", "canceled"} :
            Goto(w, [Ready EXCEPT !.pc = "write", !.me = me, !.id = i, !.status = status,
                          !.peer = IF me = request[i].to THEN request[i].from ELSE request[i].to])
      BY <2>4 DEF ResolveRead
    <3> DEFINE r == [Ready EXCEPT !.pc = "write", !.me = me, !.id = i, !.status = status,
                          !.peer = IF me = request[i].to THEN request[i].from ELSE request[i].to]
    <3>2. r.pc = "write"
      BY DEF Ready
    <3>3. QED
      BY <2>4, <3>1, <3>2, GoodGoto DEF ResolveRead, Calls, Talking
  <2>5. CASE FindMine(w)
    BY <2>5, GoodAt, GoodFinish DEF FindMine, Calls, Asking, Talking
  <2>6. CASE FindReverse(w)
    <3>1. CASE At(w, "insert")
      BY <2>6, <3>1, GoodAt DEF FindReverse, Calls, Asking, Talking
    <3>2. CASE ~At(w, "insert")
      <4>1. PICK j \in RequestId :
              Goto(w, [call[w] EXCEPT !.pc = "write", !.id = j, !.status = "accepted"])
        BY <2>6, <3>2 DEF FindReverse, PendingAsk
      <4> DEFINE r == [call[w] EXCEPT !.pc = "write", !.id = j, !.status = "accepted"]
      <4>2. r.pc = "write"
        BY <2>0 DEF Call
      <4>3. QED
        BY <2>6, <4>1, <4>2, GoodGoto DEF FindReverse, Calls, Talking
    <3>3. QED
      BY <3>1, <3>2
  <2>7. CASE FindDirect(w)
    <3>1. CASE Finish(w)
      BY <2>7, <3>1, GoodFinish DEF FindDirect
    <3>2. CASE At(w, "create")
      <4> DEFINE r == [call[w] EXCEPT !.pc = "create"]
      <4>1. r.pc = "create" /\ r.me = call[w].me /\ r.peer = call[w].peer
        BY <2>0 DEF Call
      <4>2. <<r.me, r.peer>> \in Open \/ Pair(r.me, r.peer) \in befriended
        BY <2>7, <4>1 DEF FindDirect, SafeInv, CallsInv, Talking
      <4>3. QED
        BY <2>7, <3>2, <4>1, <4>2 DEF FindDirect, At
    <3>3. QED
      BY <2>7, <3>1, <3>2 DEF FindDirect
  <2>8. QED
    BY <2>1, <2>2, <2>3, <2>4, <2>5, <2>6, <2>7 DEF Reads
<1>4. CallsInv' /\ AcceptedBefriends'
  BY <1>1, <1>3, CallsStep, AcceptedStep DEF Good, SafeInv, tables, past
<1>5. QED
  BY <1>2, <1>4 DEF SafeInv

LEMMA InsertSafe ==
  ASSUME TypeOK, SafeInv, NEW w \in Worker, Insert(w)
  PROVE  SafeInv'
<1>1. /\ UNCHANGED <<friends, conv, befriended, missing>> /\ agreed \subseteq agreed'
      /\ call[w].pc # "befriend" /\ Goto(w, Ready)
  BY DEF Insert, Finish
<1>2. \A i \in RequestId :
        \/ request'[i] = request[i]
        \/ /\ request'[i].status = "pending"
           /\ <<request'[i].from, request'[i].to>> \in agreed'
  BY DEF Insert, TypeOK
<1>3. RowsInv' /\ ResolverMatches'
  BY <1>1, <1>2 DEF SafeInv, RowsInv, ResolverMatches
<1>4. CallsInv'
  BY <1>1, CallsStep DEF SafeInv, Ready, Talking
<1>5. AcceptedBefriends'
  BY <1>1, <1>2, AcceptedStep DEF SafeInv
<1>6. ConsentInv' /\ TalkNeedsFriends'
  BY <1>1 DEF SafeInv, ConsentInv, Consented, TalkNeedsFriends
<1>7. QED
  BY <1>3, <1>4, <1>5, <1>6 DEF SafeInv

LEMMA WriteSafe ==
  ASSUME TypeOK, SafeInv, NEW w \in Worker, WriteStatus(w)
  PROVE  SafeInv'
<1> DEFINE i == call[w].id
           me == call[w].me
           peer == call[w].peer
           status == call[w].status
<1>1. /\ UNCHANGED <<friends, conv, befriended, missing>> /\ agreed \subseteq agreed'
      /\ call[w].pc = "write"
  BY DEF WriteStatus
<1>2. /\ i \in RequestId /\ status \in Resolved /\ request[i].status # "free"
      /\ status = "canceled" => request[i].from = me /\ request[i].to = peer
      /\ status # "canceled" => request[i].from = peer /\ request[i].to = me
  BY <1>1 DEF TypeOK, CallOK, Call
<1>3. ConsentInv' /\ TalkNeedsFriends'
  BY <1>1 DEF SafeInv, ConsentInv, Consented, TalkNeedsFriends
<1>4. CASE request' = request /\ agreed' = agreed /\ Finish(w)
  <2>1. RowsInv' /\ ResolverMatches'
    BY <1>4 DEF SafeInv, RowsInv, ResolverMatches
  <2>2. CallsInv' /\ AcceptedBefriends'
    BY <1>1, <1>4, CallsStep, AcceptedStep DEF SafeInv, Finish, Ready, Talking
  <2>3. QED
    BY <1>3, <2>1, <2>2 DEF SafeInv
<1>5. CASE Update(i, status, me) /\ status = "accepted" /\ At(w, "befriend")
           /\ agreed' = agreed \cup {<<me, peer>>}
  <2> DEFINE r == [call[w] EXCEPT !.pc = "befriend"]
  <2>1. request'[i] = [request[i] EXCEPT !.status = "accepted", !.by = me]
        /\ \A j \in RequestId : j # i => request'[j] = request[j]
    BY <1>2, <1>5 DEF Update, TypeOK
  <2>2. /\ request'[i].status = "accepted" /\ request'[i].by = me
        /\ request'[i].from = peer /\ request'[i].to = me
    BY <1>2, <1>5, <2>1 DEF TypeOK, RequestRow
  <2>3. <<peer, me>> \in agreed'
    BY <1>1, <1>2, <1>5 DEF SafeInv, RowsInv
  <2>4. r.pc = "befriend" /\ r.me = me /\ r.peer = peer /\ Goto(w, r)
    BY <1>5 DEF TypeOK, Call, At
  <2>5. RowsInv' /\ ResolverMatches'
    BY <1>1, <1>5, <2>1, <2>2, <2>3 DEF SafeInv, RowsInv, ResolverMatches
  <2>6. CallsInv'
    BY <1>1, <1>5, <2>3, <2>4, CallsStep DEF SafeInv, Talking
  <2>7. AcceptedBefriends'
    <3> SUFFICES ASSUME NEW j \in RequestId, request'[j].status = "accepted",
                        Pair(request'[j].from, request'[j].to) \notin friends \cup missing
                 PROVE  \E v \in Worker :
                          /\ call'[v].pc = "befriend"
                          /\ Pair(call'[v].me, call'[v].peer) = Pair(request'[j].from, request'[j].to)
      BY <1>1 DEF AcceptedBefriends
    <3>1. CASE j = i
      <4>1. call'[w] = r
        BY <2>4, OthersKept
      <4>2. Pair(me, peer) = Pair(peer, me)
        BY PairFlips
      <4>3. QED
        BY <2>2, <2>4, <3>1, <4>1, <4>2
    <3>2. CASE j # i
      <4>1. PICK v \in Worker :
              /\ call[v].pc = "befriend"
              /\ Pair(call[v].me, call[v].peer) = Pair(request'[j].from, request'[j].to)
        BY <2>1, <3>2 DEF SafeInv, AcceptedBefriends
      <4>2. call'[v] = call[v]
        BY <1>1, <2>4, <4>1, OthersKept
      <4>3. QED
        BY <4>1, <4>2
    <3>3. QED
      BY <3>1, <3>2
  <2>8. QED
    BY <1>3, <2>5, <2>6, <2>7 DEF SafeInv
<1>6. CASE Update(i, status, me) /\ status # "accepted" /\ Finish(w) /\ agreed' = agreed
  <2>1. request'[i] = [request[i] EXCEPT !.status = status, !.by = me]
        /\ \A j \in RequestId : j # i => request'[j] = request[j]
    BY <1>2, <1>6 DEF Update, TypeOK
  <2>2. /\ request'[i].status = status /\ request'[i].by = me
        /\ request'[i].from = request[i].from /\ request'[i].to = request[i].to
    BY <1>2, <2>1 DEF TypeOK, RequestRow
  <2>3. RowsInv' /\ ResolverMatches'
    BY <1>2, <1>6, <2>1, <2>2 DEF SafeInv, RowsInv, ResolverMatches, Resolved
  <2>4. CallsInv' /\ AcceptedBefriends'
    BY <1>1, <1>6, <2>1, <2>2, CallsStep, AcceptedStep DEF SafeInv, Finish, Ready, Talking
  <2>5. QED
    BY <1>3, <2>3, <2>4 DEF SafeInv
<1>7. QED
  BY <1>4, <1>5, <1>6 DEF WriteStatus

LEMMA BefriendSafe ==
  ASSUME TypeOK, SafeInv, NEW w \in Worker, Befriend(w)
  PROVE  SafeInv'
<1> DEFINE me == call[w].me
           peer == call[w].peer
           pair == Pair(me, peer)
<1>1. /\ UNCHANGED <<request, conv, agreed>> /\ Goto(w, Ready) /\ call[w].pc = "befriend"
      /\ befriended \subseteq befriended' /\ befriended' \subseteq befriended \cup {pair}
      /\ friends \subseteq friends' /\ friends' \subseteq befriended'
      /\ missing \subseteq missing' \cup friends' /\ pair \in missing' \cup friends'
  BY DEF Befriend, Finish, SafeInv, ConsentInv
<1>2. {<<me, peer>>, <<peer, me>>} \subseteq agreed
  BY <1>1 DEF SafeInv, CallsInv
<1>3. RowsInv' /\ ResolverMatches'
  BY <1>1 DEF SafeInv, RowsInv, ResolverMatches
<1>4. CallsInv'
  BY <1>1, CallsStep DEF SafeInv, Ready, Talking
<1>5. AcceptedBefriends'
  <2> SUFFICES ASSUME NEW i \in RequestId, request[i].status = "accepted",
                      Pair(request[i].from, request[i].to) \notin friends' \cup missing'
               PROVE  \E v \in Worker :
                        /\ call'[v].pc = "befriend"
                        /\ Pair(call'[v].me, call'[v].peer) = Pair(request[i].from, request[i].to)
    BY <1>1 DEF AcceptedBefriends
  <2>1. PICK v \in Worker :
          /\ call[v].pc = "befriend"
          /\ Pair(call[v].me, call[v].peer) = Pair(request[i].from, request[i].to)
    BY <1>1 DEF SafeInv, AcceptedBefriends
  <2>2. v # w
    BY <1>1, <2>1
  <2>3. QED
    BY <1>1, <2>1, <2>2, OthersKept
<1>6. ConsentInv'
  <2>1. ASSUME NEW e \in Entity, NEW f \in Entity, Pair(e, f) \in befriended'
        PROVE  {<<e, f>>, <<f, e>>} \subseteq agreed
    <3>1. CASE Pair(e, f) = pair
      BY <1>2, <3>1, PairSides
    <3>2. CASE Pair(e, f) \in befriended
      BY <3>2 DEF SafeInv, ConsentInv, Consented
    <3>3. QED
      BY <1>1, <2>1, <3>1, <3>2
  <2>2. QED
    BY <1>1, <2>1 DEF ConsentInv, Consented
<1>7. TalkNeedsFriends'
  BY <1>1 DEF SafeInv, TalkNeedsFriends
<1>8. QED
  BY <1>3, <1>4, <1>5, <1>6, <1>7 DEF SafeInv

LEMMA TalkSafe ==
  ASSUME TypeOK, SafeInv, NEW w \in Worker,
         CreateConversation(w) \/ AddCreator(w) \/ AddPeer(w)
  PROVE  SafeInv'
<1>1. UNCHANGED <<request, friends, past>> /\ call[w].pc \in Talking /\ call[w].pc # "befriend"
  BY DEF CreateConversation, AddCreator, AddPeer, Talking
<1>2. <<call[w].me, call[w].peer>> \in Open \/ Pair(call[w].me, call[w].peer) \in befriended
  BY <1>1 DEF SafeInv, CallsInv
<1>3. PICK r : /\ Goto(w, r) /\ r.pc # "befriend"
               /\ r.pc \in Talking => r.me = call[w].me /\ r.peer = call[w].peer
  <2>0. call[w] \in Call
    BY DEF TypeOK
  <2>1. CASE Finish(w)
    BY <2>1 DEF Finish, Ready, Talking
  <2>2. CASE At(w, "add_peer")
    <3> DEFINE r == [call[w] EXCEPT !.pc = "add_peer"]
    <3>1. r.pc = "add_peer" /\ r.me = call[w].me /\ r.peer = call[w].peer
      BY <2>0 DEF Call
    <3>2. QED
      BY <2>2, <3>1 DEF At
  <2>3. ASSUME NEW c \in ConvId, Goto(w, [call[w] EXCEPT !.pc = "add_me", !.id = c])
        PROVE  \E r : /\ Goto(w, r) /\ r.pc # "befriend"
                      /\ r.pc \in Talking => r.me = call[w].me /\ r.peer = call[w].peer
    <3> DEFINE r == [call[w] EXCEPT !.pc = "add_me", !.id = c]
    <3>1. r.pc = "add_me" /\ r.me = call[w].me /\ r.peer = call[w].peer
      BY <2>0 DEF Call
    <3>2. QED
      BY <2>3, <3>1
  <2>4. QED
    BY <2>1, <2>2, <2>3 DEF CreateConversation, AddCreator, AddPeer
<1>4. CallsInv' /\ AcceptedBefriends'
  BY <1>1, <1>2, <1>3, CallsStep, AcceptedStep DEF SafeInv, past
<1>5. RowsInv' /\ ResolverMatches' /\ ConsentInv'
  BY <1>1 DEF SafeInv, RowsInv, ResolverMatches, ConsentInv, Consented, past
<1>6. TalkNeedsFriends'
  <2>1. \A c \in ConvId :
          \/ conv'[c].by = conv[c].by /\ conv'[c].peer = conv[c].peer
          \/ conv'[c].by = call[w].me /\ conv'[c].peer = call[w].peer
    <3>0. conv \in [ConvId -> ConvRow]
      BY DEF TypeOK
    <3>1. CASE CreateConversation(w)
      BY <3>0, <3>1, ZenonT(40) DEF ConvRow, CreateConversation
    <3>2. CASE AddCreator(w)
      BY <3>0, <3>2 DEF ConvRow, AddCreator
    <3>3. CASE AddPeer(w)
      BY <3>0, <3>3 DEF ConvRow, AddPeer
    <3>4. QED
      BY <3>1, <3>2, <3>3
  <2>2. QED
    BY <1>1, <1>2, <2>1 DEF SafeInv, TalkNeedsFriends, past
<1>7. QED
  BY <1>4, <1>5, <1>6 DEF SafeInv

LEMMA OtherSafe ==
  ASSUME TypeOK, SafeInv, \/ \E me, peer \in Entity : DeleteFriend(me, peer)
                          \/ \E c \in ConvId, e \in Entity : Depart(c, e) \/ Join(c, e)
                          \/ UNCHANGED vars
  PROVE  SafeInv'
<1>1. /\ UNCHANGED <<request, call, agreed, befriended>>
      /\ friends' \subseteq friends /\ friends \cup missing \subseteq friends' \cup missing'
  BY DEF DeleteFriend, Depart, Join, vars, tables, past
<1>2. \A c \in ConvId : conv'[c].by = conv[c].by /\ conv'[c].peer = conv[c].peer
  <2>1. CASE conv' = conv
    BY <2>1
  <2>2. ASSUME NEW d \in ConvId, NEW e \in Entity, Depart(d, e) \/ Join(d, e)
        PROVE  \A c \in ConvId : conv'[c].by = conv[c].by /\ conv'[c].peer = conv[c].peer
    BY <2>2 DEF TypeOK, ConvRow, Depart, Join
  <2>3. QED
    BY <2>1, <2>2 DEF DeleteFriend, vars, tables
<1>3. RowsInv' /\ CallsInv' /\ ResolverMatches' /\ ConsentInv'
  BY <1>1 DEF SafeInv, RowsInv, CallsInv, ResolverMatches, ConsentInv, Consented
<1>4. AcceptedBefriends'
  BY <1>1 DEF SafeInv, AcceptedBefriends
<1>5. TalkNeedsFriends'
  BY <1>1, <1>2 DEF SafeInv, TalkNeedsFriends
<1>6. QED
  BY <1>3, <1>4, <1>5 DEF SafeInv

LEMMA SafeStep ==
  ASSUME TypeOK, SafeInv, [Next]_vars
  PROVE  SafeInv'
BY ReadSafe, InsertSafe, WriteSafe, BefriendSafe, TalkSafe, OtherSafe, Zenon DEF Next, Reads
-----------------------------------------------------------------------------
(* Theorems *)

\* Types hold in every behaviour, and a status is only ever written by the side
\* of the request that may write it.
THEOREM FriendsTypes == Spec => []TypeOK
BY InitType, TypeStep, PTL DEF Spec

\* Friendship and direct conversations need the consent of both sides, or an open
\* side; an accepted request has its friendship unless somebody undid it or a
\* statement failed; and status and resolver of a request belong together.
THEOREM FriendsSafe ==
  Spec => [](Consented /\ ResolverMatches /\ AcceptedBefriends /\ TalkNeedsFriends)
<1>1. Init => TypeOK /\ SafeInv
  BY InitType, InitSafe
<1>2. TypeOK /\ SafeInv /\ [Next]_vars => (TypeOK /\ SafeInv)'
  BY TypeStep, SafeStep
<1>3. SafeInv => Consented /\ ResolverMatches /\ AcceptedBefriends /\ TalkNeedsFriends
  BY DEF SafeInv, ConsentInv
<1>4. QED
  BY <1>1, <1>2, <1>3, PTL DEF Spec
=============================================================================
