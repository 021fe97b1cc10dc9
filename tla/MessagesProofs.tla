--------------------------- MODULE MessagesProofs ---------------------------
(***************************************************************************)
(* Proofs about the messages of a conversation, for any number of          *)
(* participants, concurrent requests, connections, polls and messages.     *)
(***************************************************************************)
EXTENDS Messages, FiniteSetTheorems, TLAPS

\* Ids are handed out upwards. A request that is inserting owns a pending row, a
\* later step of a request is about a stored one, and what was announced is stored.
RowsInv ==
  /\ \A i \in Id : i >= nextId => msg[i] = NoRow
  /\ \A s \in Sender :
       /\ sender[s].pc = "insert" =>
            LET i == sender[s].event.id
            IN /\ msg[i] # NoRow /\ msg[i].state = "pending"
               /\ msg[i].revoked = FALSE /\ msg[i].via = s
               /\ sender[s].event.type = "new"
       /\ sender[s].pc \notin {"idle", "insert"} =>
            LET i == sender[s].event.id
            IN /\ msg[i] # NoRow /\ msg[i].state = "stored"
               /\ sender[s].event.type = "new" => msg[i].via = s
  /\ \A i \in announced : msg[i] # NoRow /\ msg[i].state = "stored"

\* What a loop was given it was given once, and lies behind its offset.
GivenInv ==
  \A p \in Poll, i \in Id :
    poll[p].times[i] <= 1 /\ (poll[p].times[i] > 0 => i <= poll[p].offset)

\* SleepsOnlyWhen without its query: every announcement since it registered that
\* was meant for a sleeping poll has left a token in its channel.
TokenInv ==
  \A p \in Poll : poll[p].pc = "waiting" /\ ~poll[p].token =>
    \A i \in announced : By(i) = PollerOf[p] \/ i \in poll[p].before

\* What the types say of one sender
LEMMA SenderShape ==
  ASSUME TypeOK, NEW s \in Sender
  PROVE  /\ sender[s].pc = "idle" \/ sender[s].event.id \in Id
         /\ sender[s].pc = "idle" \/ sender[s].event \in Event
         /\ sender[s].pc = "idle" \/ sender[s].todo \subseteq Client
BY DEF TypeOK, SenderState, Idle, Event

LEMMA BusyShape ==
  ASSUME NEW pc \in {"insert", "edit", "revoke", "snapshot"},
         NEW type \in {"new", "updated", "revoked"}, NEW i \in Id
  PROVE  Busy(pc, type, i) \in SenderState /\ Busy(pc, type, i).pc = pc
         /\ Busy(pc, type, i).event = [type |-> type, id |-> i, live |-> TRUE]
BY DEF Busy, SenderState, Event

\* A broadcast turns to the connections it found, with what it could read; when it
\* could read everything it has left out none that is subscribed and wants it.
LEMMA SnapshotShape ==
  ASSUME TypeOK, NEW s \in Sender, Snapshot(s)
  PROVE  \E read \in SUBSET Reads, cs \in SUBSET Client :
           LET v == sender[s].event IN
           /\ v \in Event /\ Go(s, Sending(v, cs, read)) /\ Sending(v, cs, read) \in SenderState
           /\ \A c \in Client : c \notin cs /\ conn[c] = "up" =>
                v.type = "new" /\ ~Wants(EntityOf[c], v.id, read)
<1> DEFINE v == sender[s].event
<1>1. v \in Event
  BY SenderShape DEF Snapshot
<1>2. PICK read \in SUBSET Reads :
        Go(s, Sending(v, {c \in Client : /\ conn[c] = "up"
                                         /\ v.type = "new" => Wants(EntityOf[c], v.id, read)}, read))
  BY DEF Snapshot
<1> DEFINE cs == {c \in Client : /\ conn[c] = "up"
                                 /\ v.type = "new" => Wants(EntityOf[c], v.id, read)}
<1>3. /\ Go(s, Sending(v, cs, read)) /\ cs \in SUBSET Client
      /\ \A c \in Client : c \notin cs /\ conn[c] = "up" =>
           v.type = "new" /\ ~Wants(EntityOf[c], v.id, read)
  BY <1>2
<1> HIDE DEF v, cs
<1>4. Sending(v, cs, read) \in SenderState
  BY <1>1, <1>3 DEF Sending, SenderState
<1>5. QED
  BY <1>1, <1>3, <1>4 DEF v

LEMMA IdleShape == Idle \in SenderState /\ Idle.pc = "idle"
BY DEF Idle, SenderState

\* GetUpdatesForEntity answers with visible messages behind the offset.
LEMMA UpdatesLater ==
  ASSUME NEW n, NEW i \in Updates(n)
  PROVE  i \in Id /\ Visible(i) /\ i > n
BY DEF Updates, Page

\* The buffered send keeps to the capacity.
LEMMA PutKeeps ==
  ASSUME TypeOK, NEW c \in Client, NEW v \in Event, Put(c, v), taken' = taken
  PROVE  /\ log' \in [Client -> Seq(Event)]
         /\ \A k \in Client : taken'[k] <= Len(log'[k]) /\ Len(log'[k]) <= taken'[k] + BufferCap
<1>1. CASE Len(log[c]) - taken[c] < BufferCap
  <2>1. log' = [log EXCEPT ![c] = Append(@, v)]
    BY <1>1 DEF Put
  <2>2. /\ log[c] \in Seq(Event) /\ Len(log[c]) \in Nat /\ taken[c] \in Nat
        /\ Append(log[c], v) \in Seq(Event) /\ Len(Append(log[c], v)) = Len(log[c]) + 1
        /\ taken[c] <= Len(log[c]) /\ BufferCap \in Nat
    BY MessagesAssumption DEF TypeOK
  <2>3. QED
    BY <1>1, <2>1, <2>2 DEF TypeOK
<1>2. CASE ~(Len(log[c]) - taken[c] < BufferCap)
  BY <1>2 DEF Put, TypeOK
<1>3. QED
  BY <1>1, <1>2
\* What a step may do to one poll's own fields
LEMMA PollMove ==
  ASSUME TypeOK, NEW p \in Poll,
         NEW pc \in {"ready", "register", "waiting", "unregister"},
         NEW t \in BOOLEAN, NEW b \in SUBSET Id
  PROVE  /\ [poll[p] EXCEPT !.pc = pc] \in PollState
         /\ [poll[p] EXCEPT !.pc = pc, !.token = t] \in PollState
         /\ [poll[p] EXCEPT !.pc = pc, !.token = t, !.before = b] \in PollState
<1>1. poll[p] \in PollState
  BY DEF TypeOK
<1>2. QED
  BY <1>1 DEF PollState

LEMMA CatchMove ==
  ASSUME TypeOK, NEW c \in Client, NEW pc \in {"none", "query", "sending"},
         NEW S \in SUBSET Id, CatchUp(c, pc, S)
  PROVE  catch' \in [Client -> CatchState]
<1>1. catch[c] \in CatchState /\ catch \in [Client -> CatchState]
  BY DEF TypeOK
<1>2. [catch[c] EXCEPT !.pc = pc, !.list = S] \in CatchState
  BY <1>1 DEF CatchState
<1>3. QED
  BY <1>1, <1>2 DEF CatchUp
-----------------------------------------------------------------------------
LEMMA TypesInit == Init => TypeOK
BY MessagesAssumption, IdleShape DEF Init, TypeOK, CatchState, PollState, Id

\* A step that only moves a sender
LEMMA SenderTypes ==
  ASSUME TypeOK, NEW s \in Sender, NEW x \in SenderState, Go(s, x),
         nextId' \in 1..MaxIds + 1, msg' \in [Id -> {NoRow} \cup Row], changes' \in Nat,
         UNCHANGED <<connVars, pollVars>>
  PROVE  TypeOK'
BY DEF TypeOK, Go, connVars, pollVars

\* A step of a connection
LEMMA ConnTypes ==
  ASSUME TypeOK, UNCHANGED <<tableVars, sender, pollVars>>,
         conn' \in [Client -> {"off", "joining", "up", "closed"}],
         catch' \in [Client -> CatchState],
         \/ log' = log /\ taken' = taken
         \/ /\ log' \in [Client -> Seq(Event)] /\ taken' \in [Client -> Nat]
            /\ \A c \in Client :
                 taken'[c] <= Len(log'[c]) /\ Len(log'[c]) <= taken'[c] + BufferCap
  PROVE  TypeOK'
BY DEF TypeOK, tableVars, pollVars

\* A step of a poll
LEMMA PollTypes ==
  ASSUME TypeOK, UNCHANGED <<tableVars, sender, connVars>>,
         poll' \in [Poll -> PollState], waiters' \in [Entity -> SUBSET Poll],
         announced' = announced
  PROVE  TypeOK'
BY DEF TypeOK, tableVars, connVars

LEMMA AnswerTypes ==
  ASSUME TypeOK, NEW p \in Poll, NEW pc \in {"ready", "unregister"},
         NEW S \in SUBSET Id, Answer(p, pc, S)
  PROVE  /\ poll' \in [Poll -> PollState]
         /\ \E top \in S : /\ \A i \in S : i <= top
                           /\ poll'[p].offset = top
                           /\ \A i \in Id : poll'[p].times[i] =
                                IF i \in S THEN poll[p].times[i] + 1 ELSE poll[p].times[i]
         /\ poll'[p].pc = pc
         /\ \A q \in Poll \ {p} : poll'[q] = poll[q]
<1>1. PICK top \in S :
        /\ \A i \in S : i <= top
        /\ poll' = [poll EXCEPT ![p].pc = pc, ![p].offset = top, ![p].token = FALSE,
                                ![p].times = [i \in Id |-> IF i \in S THEN @[i] + 1
                                                                      ELSE @[i]]]
  BY DEF Answer
<1>2. poll \in [Poll -> PollState] /\ poll[p] \in PollState /\ top \in 0..MaxIds
  BY MessagesAssumption DEF TypeOK, Id
<1>3. [i \in Id |-> IF i \in S THEN poll[p].times[i] + 1 ELSE poll[p].times[i]] \in [Id -> Nat]
  BY <1>2 DEF PollState
<1>4. poll'[p] \in PollState /\ poll'[p].offset = top /\ poll'[p].pc = pc
      /\ poll'[p].times = [i \in Id |-> IF i \in S THEN poll[p].times[i] + 1
                                                   ELSE poll[p].times[i]]
  BY <1>1, <1>2, <1>3 DEF PollState
<1>5. \A q \in Poll \ {p} : poll'[q] = poll[q]
  BY <1>1, <1>2
<1>6. poll' \in [Poll -> PollState]
  BY <1>1, <1>2, <1>4, <1>5
<1>7. QED
  BY <1>1, <1>4, <1>5, <1>6
LEMMA TypesStep == TypeOK /\ RowsInv /\ [Next]_vars => TypeOK'
<1> SUFFICES ASSUME TypeOK, RowsInv, [Next]_vars PROVE TypeOK'
  OBVIOUS
<1> USE MessagesAssumption
<1>0. /\ nextId \in 1..MaxIds + 1 /\ changes \in Nat
      /\ msg \in [Id -> {NoRow} \cup Row] /\ poll \in [Poll -> PollState]
      /\ waiters \in [Entity -> SUBSET Poll] /\ catch \in [Client -> CatchState]
      /\ conn \in [Client -> {"off", "joining", "up", "closed"}]
  BY DEF TypeOK
<1>1. ASSUME NEW s \in Sender, NEW d \in Draft, NEW x \in Text, Insert(s, d, x) PROVE TypeOK'
  <2>1. /\ nextId \in Id /\ nextId' \in 1..MaxIds + 1
        /\ [state |-> "pending", revoked |-> FALSE, via |-> s, draft |-> d, text |-> x] \in Row
    BY <1>0, <1>1 DEF Insert, Id, Row
  <2>2. msg' \in [Id -> {NoRow} \cup Row]
    BY <1>0, <1>1, <2>1 DEF Insert
  <2>3. QED
    <3>1. Busy("insert", "new", nextId) \in SenderState
      BY <2>1, BusyShape
    <3>2. /\ Go(s, Busy("insert", "new", nextId)) /\ changes' \in Nat
          /\ UNCHANGED <<connVars, pollVars>>
      BY <1>0, <1>1 DEF Insert, connVars, pollVars
    <3>3. QED
      BY <2>1, <2>2, <3>1, <3>2, SenderTypes
<1>2. ASSUME NEW s \in Sender, Commit(s) PROVE TypeOK'
  <2> DEFINE i == sender[s].event.id
  <2>1. i \in Id /\ msg[i] \in Row
    <3>1. sender[s].pc = "insert" /\ i \in Id
      BY <1>2, SenderShape DEF Commit
    <3>2. msg[i] # NoRow
      BY <3>1 DEF RowsInv
    <3> QED
      BY <1>0, <3>1, <3>2
  <2>2. [msg[i] EXCEPT !.state = "stored"] \in Row
    BY <2>1 DEF Row
  <2>3. msg' \in [Id -> {NoRow} \cup Row]
    BY <1>0, <1>2, <2>1, <2>2 DEF Commit
  <2>4. QED
    <3>1. Busy("snapshot", "new", i) \in SenderState
      BY <2>1, BusyShape
    <3>2. QED
      BY <1>0, <1>2, <2>3, <3>1, IdleShape, SenderTypes DEF Commit
<1>3. ASSUME NEW s \in Sender, NEW i \in Id, NEW kind \in {"edit", "revoke"},
             ReadForChange(s, i, kind)
      PROVE TypeOK'
  <2> DEFINE type == IF kind = "edit" THEN "updated" ELSE "revoked"
  <2>1. Busy(kind, type, i) \in SenderState
    BY BusyShape
  <2>2. QED
    BY <1>0, <1>3, <2>1, SenderTypes DEF ReadForChange
<1>4. ASSUME NEW s \in Sender, NEW x \in Text, EditWrite(s, x) PROVE TypeOK'
  <2> DEFINE i == sender[s].event.id
  <2>1. i \in Id /\ msg[i] \in Row
    BY <1>0, <1>4, SenderShape DEF EditWrite, RowsInv
  <2>2. [msg[i] EXCEPT !.text = x] \in Row
    BY <2>1 DEF Row
  <2>3. msg' \in [Id -> {NoRow} \cup Row] /\ Busy("snapshot", "updated", i) \in SenderState
    BY <1>0, <1>4, <2>1, <2>2, BusyShape DEF EditWrite
  <2>4. QED
    BY <1>0, <1>4, <2>3, SenderTypes DEF EditWrite
<1>5. ASSUME NEW s \in Sender, RevokeWrite(s) PROVE TypeOK'
  <2> DEFINE i == sender[s].event.id
  <2>1. i \in Id /\ msg[i] \in Row
    BY <1>0, <1>5, SenderShape DEF RevokeWrite, RowsInv
  <2>2. [msg[i] EXCEPT !.revoked = TRUE] \in Row
    BY <2>1 DEF Row
  <2>3. msg' \in [Id -> {NoRow} \cup Row] /\ Busy("snapshot", "revoked", i) \in SenderState
    BY <1>0, <1>5, <2>1, <2>2, BusyShape DEF RevokeWrite
  <2>4. QED
    BY <1>0, <1>5, <2>3, SenderTypes DEF RevokeWrite
<1>6. ASSUME NEW s \in Sender, ChangeFails(s) PROVE TypeOK'
  BY <1>0, <1>6, IdleShape, SenderTypes DEF ChangeFails, tableVars
<1>7. ASSUME NEW s \in Sender, Snapshot(s) PROVE TypeOK'
  <2>1. PICK x \in SenderState : Go(s, x)
    BY <1>7, SnapshotShape
  <2>2. QED
    BY <1>0, <1>7, <2>1, SenderTypes DEF Snapshot, tableVars
<1>8. ASSUME NEW s \in Sender, NEW c \in Client, SendTo(s, c) PROVE TypeOK'
  <2>1. sender[s].event \in Event
    BY <1>8, SenderShape DEF SendTo
  <2>2. [sender[s] EXCEPT !.todo = @ \ {c}] \in SenderState
    <3>1. sender[s] \in SenderState /\ sender[s] # Idle
      BY <1>8 DEF SendTo, TypeOK, Idle
    <3>2. QED
      BY <3>1 DEF SenderState
  <2>3. sender' \in [Sender -> SenderState]
    BY <1>8, <2>2 DEF SendTo, Go, TypeOK
  <2>4. QED
    BY <1>8, <2>1, <2>3, PutKeeps DEF SendTo, TypeOK, tableVars, pollVars
<1>9. ASSUME NEW s \in Sender, NEW c \in Client, SendPanics(s, c) PROVE TypeOK'
  BY <1>0, <1>9, IdleShape, SenderTypes DEF SendPanics, tableVars
<1>10. ASSUME NEW s \in Sender, Announce(s) PROVE TypeOK'
  <2>1. sender[s].event.id \in Id
    BY <1>10, SenderShape DEF Announce
  <2>2. poll' \in [Poll -> PollState]
    <3>1. ASSUME NEW p \in Poll, NEW W
          PROVE  [poll[p] EXCEPT !.token = @ \/ p \in W] \in PollState
      <4>1. poll[p] \in PollState /\ (poll[p].token \/ p \in W) \in BOOLEAN
        BY <1>0
      <4>2. QED
        BY <4>1 DEF PollState
    <3>2. QED
      BY <1>0, <1>10, <3>1 DEF Announce
  <2>3. sender' \in [Sender -> SenderState]
    BY <1>10, IdleShape DEF Announce, Go, TypeOK
  <2>4. QED
    BY <1>10, <2>1, <2>2, <2>3 DEF Announce, TypeOK, tableVars, connVars
<1>11. ASSUME NEW c \in Client, NEW n \in 0..MaxIds, Connect(c, n) PROVE TypeOK'
  <2>1. catch' \in [Client -> CatchState]
    BY <1>0, <1>11 DEF Connect, CatchState
  <2>2. QED
    BY <1>0, <1>11, <2>1, ConnTypes DEF Connect
<1>12. ASSUME NEW c \in Client, Subscribe(c) \/ Close(c) PROVE TypeOK'
  BY <1>0, <1>12, ConnTypes DEF Subscribe, Close
<1>13. ASSUME NEW c \in Client, Write(c) PROVE TypeOK'
  BY <1>13 DEF Write, TypeOK, tableVars, pollVars
<1>14. ASSUME NEW c \in Client, CatchUpQuery(c) PROVE TypeOK'
  <2>1. Updates(catch[c].since) \subseteq Id
    BY UpdatesLater
  <2>2. catch' \in [Client -> CatchState]
    BY <1>14, <2>1, CatchMove DEF CatchUpQuery
  <2>3. QED
    BY <1>0, <1>14, <2>2, ConnTypes DEF CatchUpQuery
<1>15. ASSUME NEW c \in Client, NEW i \in Id, CatchUpSend(c, i) PROVE TypeOK'
  <2>1. [type |-> "new", id |-> i, live |-> FALSE] \in Event
    BY DEF Event
  <2>2. catch' \in [Client -> CatchState]
    <3>1. catch[c].list \ {i} \in SUBSET Id
      BY <1>0 DEF CatchState
    <3>2. QED
      BY <1>15, <3>1, CatchMove DEF CatchUpSend
  <2>3. taken' = taken /\ taken \in [Client -> Nat]
    BY <1>15 DEF CatchUpSend, TypeOK
  <2>4. QED
    BY <1>0, <1>15, <2>1, <2>2, <2>3, ConnTypes, PutKeeps DEF CatchUpSend
<1>16. ASSUME NEW c \in Client, CatchUpEnd(c) PROVE TypeOK'
  <2>1. catch' \in [Client -> CatchState]
    BY <1>16, CatchMove DEF CatchUpEnd
  <2>2. QED
    BY <1>0, <1>16, <2>1, ConnTypes DEF CatchUpEnd
<1>17. ASSUME NEW p \in Poll, PollQuery(p) PROVE TypeOK'
  <2>1. Updates(poll[p].offset) \subseteq Id
    BY UpdatesLater
  <2>2. poll' \in [Poll -> PollState]
    BY <1>0, <1>17, <2>1, AnswerTypes, PollMove DEF PollQuery
  <2>3. QED
    BY <1>0, <1>17, <2>2, PollTypes DEF PollQuery
<1>18. ASSUME NEW p \in Poll, PollRegister(p) PROVE TypeOK'
  <2>1. announced \in SUBSET Id
    BY DEF TypeOK
  <2>2. poll' \in [Poll -> PollState] /\ waiters' \in [Entity -> SUBSET Poll]
    BY <1>0, <1>18, <2>1, PollMove DEF PollRegister
  <2>3. QED
    BY <1>18, <2>2, PollTypes DEF PollRegister
<1>19. ASSUME NEW p \in Poll, PollWake(p) PROVE TypeOK'
  <2>1. Updates(poll[p].offset) \subseteq Id
    BY UpdatesLater
  <2>2. poll' \in [Poll -> PollState]
    BY <1>0, <1>19, <2>1, AnswerTypes, PollMove, SMTT(30), ZenonT(40) DEF PollWake
  <2>3. QED
    BY <1>0, <1>19, <2>2, PollTypes DEF PollWake
<1>20. ASSUME NEW p \in Poll, PollGivesUp(p) PROVE TypeOK'
  <2>1. poll' \in [Poll -> PollState]
    BY <1>0, <1>20, PollMove DEF PollGivesUp
  <2>2. QED
    BY <1>0, <1>20, <2>1, PollTypes DEF PollGivesUp
<1>21. ASSUME NEW p \in Poll, PollUnregister(p) PROVE TypeOK'
  <2>1. poll' \in [Poll -> PollState] /\ waiters' \in [Entity -> SUBSET Poll]
    BY <1>0, <1>21, PollMove DEF PollUnregister
  <2>2. QED
    BY <1>21, <2>1, PollTypes DEF PollUnregister
<1>22. CASE UNCHANGED vars
  BY <1>22 DEF vars, TypeOK
<1>23. QED
  BY <1>1, <1>2, <1>3, <1>4, <1>5, <1>6, <1>7, <1>8, <1>9, <1>10, <1>11, <1>12, <1>13, <1>14,
     <1>15, <1>16, <1>17, <1>18, <1>19, <1>20, <1>21, <1>22
  DEF Next, Sends, Connection, Polls
-----------------------------------------------------------------------------
\* A step that moves one request, the rows staying, to a stored row or to rest
LEMMA MoveRows ==
  ASSUME TypeOK, RowsInv, NEW s \in Sender, NEW x, Go(s, x),
         nextId' = nextId, msg' = msg, announced' = announced,
         \/ x.pc = "idle"
         \/ /\ x.pc # "insert"
            /\ x.event.id \in Id /\ msg[x.event.id] # NoRow
            /\ msg[x.event.id].state = "stored"
            /\ x.event.type = "new" => msg[x.event.id].via = s
  PROVE  RowsInv'
<1>1. sender'[s] = x /\ \A q \in Sender \ {s} : sender'[q] = sender[q]
  BY DEF Go, TypeOK
<1>2. \A q \in Sender :
        /\ sender'[q].pc = "insert" => q # s
        /\ q = s /\ sender'[q].pc \notin {"idle", "insert"} =>
             LET i == sender'[q].event.id
             IN /\ msg[i] # NoRow /\ msg[i].state = "stored"
                /\ sender'[q].event.type = "new" => msg[i].via = q
  BY <1>1
<1>3. QED
  BY <1>1, <1>2, SMTT(30), ZenonT(40) DEF RowsInv

\* A step that rewrites a stored row in place
LEMMA RewriteRows ==
  ASSUME TypeOK, RowsInv, NEW s \in Sender, NEW i \in Id, NEW r \in Row,
         msg[i] # NoRow, msg[i].state = "stored", r.state = "stored", r # NoRow,
         r.via = msg[i].via,
         msg' = [msg EXCEPT ![i] = r], nextId' = nextId, announced' = announced,
         NEW x, Go(s, x), x.pc = "snapshot", x.event.id = i,
         x.event.type # "new"
  PROVE  RowsInv'
BY SMTT(30), ZenonT(40) DEF RowsInv, Go, TypeOK

LEMMA RowShape ==
  ASSUME NEW r \in Row
  PROVE  r # NoRow
BY DEF Row, NoRow

LEMMA RowsStep == TypeOK /\ RowsInv /\ [Next]_vars => RowsInv'
<1> SUFFICES ASSUME TypeOK, RowsInv, [Next]_vars PROVE RowsInv'
  OBVIOUS
<1> USE MessagesAssumption
<1>0. /\ msg \in [Id -> {NoRow} \cup Row] /\ sender \in [Sender -> SenderState]
      /\ nextId \in 1..MaxIds + 1 /\ announced \subseteq Id
  BY DEF TypeOK
<1>1. ASSUME NEW s \in Sender, NEW d \in Draft, NEW x \in Text, Insert(s, d, x) PROVE RowsInv'
  <2> DEFINE r == [state |-> "pending", revoked |-> FALSE, via |-> s, draft |-> d, text |-> x]
             b == Busy("insert", "new", nextId)
  <2>1. /\ nextId \in Id /\ msg[nextId] = NoRow /\ nextId' = nextId + 1
        /\ msg' = [msg EXCEPT ![nextId] = r] /\ sender' = [sender EXCEPT ![s] = b]
        /\ announced' = announced
    BY <1>1 DEF Insert, RowsInv, Id, Go, pollVars
  <2>2. r # NoRow /\ r.state = "pending" /\ r.via = s /\ b.pc = "insert" /\ b.event.id = nextId
      /\ r.revoked = FALSE /\ b.event.type = "new"
    BY DEF NoRow, Busy
  <2>3. \A i \in Id : i # nextId => msg'[i] = msg[i]
    BY <1>0, <2>1
  <2>4. msg'[nextId] = r /\ sender'[s] = b /\ \A t \in Sender \ {s} : sender'[t] = sender[t]
    BY <1>0, <2>1
  <2>5. \A i \in Id : i >= nextId' => msg'[i] = NoRow
    BY <1>0, <2>1, <2>3 DEF RowsInv, Id
  <2>6. \A t \in Sender \ {s} : sender[t].pc # "idle" => sender[t].event.id \in Id \ {nextId}
    BY <2>1, SenderShape DEF RowsInv
  <2> HIDE DEF r, b
  <2>7. \A t \in Sender \ {s} : sender[t].pc # "idle" =>
          msg'[sender[t].event.id] = msg[sender[t].event.id]
    BY <2>3, <2>6
  <2>8. \A i \in announced' : msg'[i] # NoRow /\ msg'[i].state = "stored"
    BY <1>0, <2>1, <2>3 DEF RowsInv
  <2> DEFINE Pending(t) ==
               sender'[t].pc = "insert" =>
                 LET i == sender'[t].event.id
                 IN /\ msg'[i] # NoRow /\ msg'[i].state = "pending"
                    /\ msg'[i].revoked = FALSE /\ msg'[i].via = t
                    /\ sender'[t].event.type = "new"
             Stored(t) ==
               sender'[t].pc \notin {"idle", "insert"} =>
                 LET i == sender'[t].event.id
                 IN /\ msg'[i] # NoRow /\ msg'[i].state = "stored"
                    /\ sender'[t].event.type = "new" => msg'[i].via = t
  <2>9. \A t \in Sender \ {s} : Pending(t) /\ Stored(t)
    BY <2>4, <2>7 DEF RowsInv
  <2>10. Pending(s) /\ Stored(s)
    BY <2>2, <2>4
  <2>11. \A t \in Sender : Pending(t) /\ Stored(t)
    <3> HIDE DEF Pending, Stored
    <3> QED
      BY <2>9, <2>10
  <2>12. QED
    BY <2>5, <2>8, <2>11 DEF RowsInv
<1>2. ASSUME NEW s \in Sender, Commit(s) PROVE RowsInv'
  <2> DEFINE i == sender[s].event.id
  <2>1. i \in Id /\ msg[i] \in Row /\ msg[i].state = "pending" /\ msg[i].via = s
    BY <1>0, <1>2, SenderShape DEF Commit, RowsInv
  <2>2. \A t \in Sender \ {s} : sender[t].pc # "idle" => sender[t].event.id \in Id \ {i}
    BY <1>2, <2>1, SenderShape DEF RowsInv
  <2>3. i \notin announced /\ ~(i >= nextId)
    BY <2>1, RowShape DEF RowsInv
  <2>4. CASE /\ msg' = [msg EXCEPT ![i].state = "stored"]
             /\ Go(s, Busy("snapshot", "new", i))
    <3>1. msg'[i] # NoRow /\ msg'[i].state = "stored" /\ msg'[i].via = s
      BY <1>0, <2>1, <2>4 DEF Row, NoRow
    <3>2. sender'[s].pc = "snapshot" /\ sender'[s].event.id = i
      BY <1>0, <2>4 DEF Go, Busy
    <3>3. \A t \in Sender \ {s} : sender'[t] = sender[t]
      BY <1>0, <2>4 DEF Go
    <3>4. \A j \in Id \ {i} : msg'[j] = msg[j]
      BY <1>0, <2>4
    <3>5. nextId' = nextId /\ announced' = announced
      BY <1>2 DEF Commit, pollVars
    <3>6. \A j \in Id : j >= nextId' => msg'[j] = NoRow
      BY <2>3, <3>4, <3>5 DEF RowsInv
    <3>7. \A j \in announced' : msg'[j] # NoRow /\ msg'[j].state = "stored"
      BY <1>0, <2>3, <3>4, <3>5 DEF RowsInv
    <3>8. ASSUME NEW t \in Sender
          PROVE  /\ sender'[t].pc = "insert" =>
                      LET j == sender'[t].event.id
                      IN /\ msg'[j] # NoRow /\ msg'[j].state = "pending"
                         /\ msg'[j].revoked = FALSE /\ msg'[j].via = t
                         /\ sender'[t].event.type = "new"
                 /\ sender'[t].pc \notin {"idle", "insert"} =>
                      LET j == sender'[t].event.id
                      IN /\ msg'[j] # NoRow /\ msg'[j].state = "stored"
                         /\ sender'[t].event.type = "new" => msg'[j].via = t
      <4>1. CASE t = s
        BY <3>1, <3>2, <4>1
      <4>2. CASE t # s
        BY <2>2, <3>3, <3>4, <4>2 DEF RowsInv
      <4>3. QED
        BY <4>1, <4>2
    <3>9. QED
      BY <3>6, <3>7, <3>8 DEF RowsInv
  <2>5. CASE msg' = [msg EXCEPT ![i] = NoRow] /\ Go(s, Idle)
    <3>1. sender'[s].pc = "idle" /\ \A t \in Sender \ {s} : sender'[t] = sender[t]
      BY <1>0, <2>5, IdleShape DEF Go
    <3>2. msg'[i] = NoRow /\ \A j \in Id \ {i} : msg'[j] = msg[j]
      BY <1>0, <2>1, <2>5
    <3>3. nextId' = nextId /\ announced' = announced
      BY <1>2 DEF Commit, pollVars
    <3>4. QED
      BY <1>0, <2>1, <2>2, <2>3, <3>1, <3>2, <3>3 DEF RowsInv
  <2>6. QED
    BY <1>2, <2>4, <2>5 DEF Commit
<1>3. ASSUME NEW s \in Sender, NEW i \in Id, NEW kind \in {"edit", "revoke"},
             ReadForChange(s, i, kind)
      PROVE RowsInv'
  <2> DEFINE b == Busy(kind, IF kind = "edit" THEN "updated" ELSE "revoked", i)
  <2>1. b.pc # "insert" /\ b.event.id = i /\ b.event.type # "new"
    BY DEF Busy
  <2>2. msg[i] # NoRow /\ msg[i].state = "stored"
    BY <1>3 DEF ReadForChange, Visible, NoRow
  <2>3. QED
    BY <1>3, <2>1, <2>2, MoveRows DEF ReadForChange, pollVars
<1>4. ASSUME NEW s \in Sender, NEW x \in Text, EditWrite(s, x) PROVE RowsInv'
  <2> DEFINE i == sender[s].event.id
             r == [msg[i] EXCEPT !.text = x]
             b == Busy("snapshot", "updated", i)
  <2>1. i \in Id /\ msg[i] \in Row /\ msg[i].state = "stored"
    BY <1>0, <1>4, SenderShape DEF EditWrite, RowsInv
  <2>2. /\ r \in Row /\ r.state = "stored" /\ r.via = msg[i].via
        /\ b.pc = "snapshot" /\ b.event.id = i /\ b.event.type # "new"
    BY <2>1 DEF Row, Busy
  <2>3. QED
    BY <1>4, <2>1, <2>2, RowShape, RewriteRows DEF EditWrite, pollVars
<1>5. ASSUME NEW s \in Sender, RevokeWrite(s) PROVE RowsInv'
  <2> DEFINE i == sender[s].event.id
             r == [msg[i] EXCEPT !.revoked = TRUE]
             b == Busy("snapshot", "revoked", i)
  <2>1. i \in Id /\ msg[i] \in Row /\ msg[i].state = "stored"
    BY <1>0, <1>5, SenderShape DEF RevokeWrite, RowsInv
  <2>2. /\ r \in Row /\ r.state = "stored" /\ r.via = msg[i].via
        /\ b.pc = "snapshot" /\ b.event.id = i /\ b.event.type # "new"
    BY <2>1 DEF Row, Busy
  <2>3. QED
    BY <1>5, <2>1, <2>2, RowShape, RewriteRows DEF RevokeWrite, pollVars
<1>6. ASSUME NEW s \in Sender, ChangeFails(s) PROVE RowsInv'
  BY <1>6, IdleShape, MoveRows DEF ChangeFails, tableVars, pollVars
<1>7. ASSUME NEW s \in Sender, Snapshot(s) PROVE RowsInv'
  <2>1. PICK read \in SUBSET Reads, cs \in SUBSET Client : Go(s, Sending(sender[s].event, cs, read))
    BY <1>7, SnapshotShape
  <2> DEFINE b == Sending(sender[s].event, cs, read)
  <2>2. b.pc = "sending" /\ b.event = sender[s].event
    BY DEF Sending
  <2>3. /\ sender[s].event.id \in Id /\ msg[sender[s].event.id] # NoRow
        /\ msg[sender[s].event.id].state = "stored"
        /\ sender[s].event.type = "new" => msg[sender[s].event.id].via = s
    BY <1>7, SenderShape DEF Snapshot, RowsInv
  <2>4. QED
    BY <1>7, <2>1, <2>2, <2>3, MoveRows DEF Snapshot, tableVars, pollVars
<1>8. ASSUME NEW s \in Sender, NEW c \in Client, SendTo(s, c) PROVE RowsInv'
  <2> DEFINE b == [sender[s] EXCEPT !.todo = @ \ {c}]
  <2>1. sender[s] \in SenderState /\ sender[s] # Idle
    BY <1>8 DEF SendTo, TypeOK, Idle
  <2>2. b.pc = "sending" /\ b.event = sender[s].event
    BY <1>8, <2>1 DEF SendTo, SenderState
  <2>3. /\ sender[s].event.id \in Id /\ msg[sender[s].event.id] # NoRow
        /\ msg[sender[s].event.id].state = "stored"
        /\ sender[s].event.type = "new" => msg[sender[s].event.id].via = s
    BY <1>8, SenderShape DEF SendTo, RowsInv
  <2>4. QED
    BY <1>8, <2>2, <2>3, MoveRows DEF SendTo, tableVars, pollVars
<1>9. ASSUME NEW s \in Sender, NEW c \in Client, SendPanics(s, c) PROVE RowsInv'
  BY <1>9, IdleShape, MoveRows DEF SendPanics, tableVars, pollVars
<1>10. ASSUME NEW s \in Sender, Announce(s) PROVE RowsInv'
  <2>1. /\ sender' = [sender EXCEPT ![s] = Idle] /\ nextId' = nextId /\ msg' = msg
        /\ announced' \subseteq announced \cup {sender[s].event.id}
    BY <1>10 DEF Announce, Go, tableVars
  <2>2. msg[sender[s].event.id] # NoRow /\ msg[sender[s].event.id].state = "stored"
    BY <1>10 DEF Announce, RowsInv
  <2>3. QED
    BY <1>0, <2>1, <2>2, IdleShape DEF RowsInv
<1>11. ASSUME NEW c \in Client, Connection(c) PROVE RowsInv'
  <2>1. UNCHANGED <<nextId, msg, sender, announced>>
    BY <1>11 DEF Connection, Connect, Subscribe, Close, Write, CatchUpQuery, CatchUpSend,
                 CatchUpEnd, tableVars, pollVars
  <2>2. QED
    BY <2>1 DEF RowsInv
<1>12. ASSUME NEW p \in Poll, Polls(p) PROVE RowsInv'
  <2>1. UNCHANGED <<nextId, msg, sender, announced>>
    BY <1>12 DEF Polls, PollQuery, PollRegister, PollWake, PollGivesUp, PollUnregister, tableVars
  <2>2. QED
    BY <2>1 DEF RowsInv
<1>13. CASE UNCHANGED vars
  BY <1>13 DEF vars, RowsInv
<1>14. QED
  BY <1>1, <1>2, <1>3, <1>4, <1>5, <1>6, <1>7, <1>8, <1>9, <1>10, <1>11, <1>12, <1>13
  DEF Next, Sends
-----------------------------------------------------------------------------
\* What no step does to a row: unstore it, change its sender, take a revocation back
LEMMA RowsStay ==
  ASSUME TypeOK, RowsInv, [Next]_vars, NEW i \in Id, msg[i] # NoRow
  PROVE  /\ msg[i].state = "stored" =>
              msg'[i] # NoRow /\ msg'[i].state = "stored" /\ msg'[i].via = msg[i].via
         /\ msg[i].revoked => msg'[i].revoked
<1>0. /\ msg \in [Id -> {NoRow} \cup Row] /\ msg[i] \in Row
      /\ sender \in [Sender -> SenderState] /\ nextId \in 1..MaxIds + 1
  BY DEF TypeOK
<1> DEFINE Q == /\ msg[i].state = "stored" =>
                     msg'[i] # NoRow /\ msg'[i].state = "stored" /\ msg'[i].via = msg[i].via
                /\ msg[i].revoked => msg'[i].revoked
<1>a. msg' = msg => Q
  OBVIOUS
<1>1. ASSUME NEW s \in Sender, NEW d \in Draft, NEW x \in Text, Insert(s, d, x) PROVE Q
  <2>1. msg[nextId] = NoRow /\ nextId \in Id
    BY <1>1 DEF Insert, RowsInv, Id
  <2>2. msg'[i] = msg[i]
    BY <1>0, <1>1, <2>1 DEF Insert
  <2>3. QED
    BY <2>2
<1>2. ASSUME NEW s \in Sender, Commit(s) PROVE Q
  <2> DEFINE j == sender[s].event.id
  <2>1. /\ j \in Id /\ msg[j] # NoRow
        /\ msg[j].state = "pending" /\ msg[j].revoked = FALSE
    BY <1>2, SenderShape DEF Commit, RowsInv
  <2>2. CASE i = j
    BY <2>1, <2>2
  <2>3. CASE i # j
    <3>1. msg'[i] = msg[i]
      BY <1>0, <1>2, <2>3 DEF Commit
    <3>2. QED
      BY <3>1
  <2>4. QED
    BY <2>2, <2>3
<1>3. ASSUME NEW s \in Sender, NEW x \in Text, EditWrite(s, x) PROVE Q
  <2> DEFINE j == sender[s].event.id
  <2>1. j \in Id /\ msg[j] \in Row /\ msg' = [msg EXCEPT ![j] = [@ EXCEPT !.text = x]]
    BY <1>0, <1>3, SenderShape DEF EditWrite, RowsInv
  <2>2. [msg[j] EXCEPT !.text = x] \in Row
    BY <1>0, <2>1 DEF Row
  <2>3. [msg[j] EXCEPT !.text = x].state = msg[j].state
        /\ [msg[j] EXCEPT !.text = x].via = msg[j].via
        /\ [msg[j] EXCEPT !.text = x].revoked = msg[j].revoked
    BY <2>1 DEF Row
  <2>4. QED
    BY <1>0, <2>1, <2>2, <2>3, RowShape
<1>4. ASSUME NEW s \in Sender, RevokeWrite(s) PROVE Q
  <2> DEFINE j == sender[s].event.id
  <2>1. j \in Id /\ msg[j] \in Row /\ msg' = [msg EXCEPT ![j] = [@ EXCEPT !.revoked = TRUE]]
    BY <1>0, <1>4, SenderShape DEF RevokeWrite, RowsInv
  <2>2. [msg[j] EXCEPT !.revoked = TRUE] \in Row
    BY <1>0, <2>1 DEF Row
  <2>3. [msg[j] EXCEPT !.revoked = TRUE].state = msg[j].state
        /\ [msg[j] EXCEPT !.revoked = TRUE].via = msg[j].via
        /\ [msg[j] EXCEPT !.revoked = TRUE].revoked = TRUE
    BY <2>1 DEF Row
  <2>4. QED
    BY <1>0, <2>1, <2>2, <2>3, RowShape
<1>5. ASSUME NEW s \in Sender,
             \/ \E k \in Id, kind \in {"edit", "revoke"} : ReadForChange(s, k, kind)
             \/ ChangeFails(s) \/ Snapshot(s) \/ Announce(s)
             \/ \E c \in Client : SendTo(s, c) \/ SendPanics(s, c)
      PROVE Q
  BY <1>5, <1>a DEF ReadForChange, ChangeFails, Snapshot, SendTo, SendPanics, Announce, tableVars
<1>6. ASSUME NEW c \in Client, Connection(c) PROVE Q
  BY <1>6, <1>a DEF Connection, Connect, Subscribe, Close, Write, CatchUpQuery, CatchUpSend,
                    CatchUpEnd, tableVars
<1>7. ASSUME NEW p \in Poll, Polls(p) PROVE Q
  BY <1>7, <1>a DEF Polls, PollQuery, PollRegister, PollWake, PollGivesUp, PollUnregister, tableVars
<1>8. CASE UNCHANGED vars
  BY <1>8, <1>a DEF vars
<1>9. QED
  BY <1>1, <1>2, <1>3, <1>4, <1>5, <1>6, <1>7, <1>8 DEF Next, Sends
-----------------------------------------------------------------------------
\* The polls: what they were given, the table of waiters, and the tokens
PollsInv == GivenInv /\ WaitersMatch /\ TokenInv

LEMMA PollsInit == Init => PollsInv /\ RowsInv
BY MessagesAssumption, IdleShape DEF Init, PollsInv, GivenInv, WaitersMatch, TokenInv, RowsInv

\* A step that leaves the polls and the announcements alone
LEMMA PollsUntouched ==
  ASSUME TypeOK, RowsInv, PollsInv, [Next]_vars, UNCHANGED pollVars
  PROVE  PollsInv'
<1>0. \A i \in announced : i \in Id /\ msg[i] # NoRow /\ msg[i].state = "stored"
  BY DEF RowsInv, TypeOK
<1>1. \A i \in announced : msg'[i].via = msg[i].via
  BY <1>0, RowsStay
<1>2. QED
  BY <1>1 DEF PollsInv, GivenInv, WaitersMatch, TokenInv, By, pollVars

\* An answer holds only what lies behind the offset, and moves the offset past it.
LEMMA AnswerGiven ==
  ASSUME TypeOK, GivenInv, NEW p \in Poll, NEW pc \in {"ready", "unregister"},
         Answer(p, pc, Updates(poll[p].offset))
  PROVE  GivenInv'
<1> DEFINE S == Updates(poll[p].offset)
<1>0. S \in SUBSET Id /\ (\A i \in S : i > poll[p].offset) /\ poll[p].offset \in 0..MaxIds
      /\ \A i \in Id : poll[p].times[i] \in Nat
  BY UpdatesLater DEF TypeOK, PollState
<1>1. PICK top \in S : /\ \A i \in S : i <= top
                       /\ poll'[p].offset = top
                       /\ \A i \in Id : poll'[p].times[i] =
                            IF i \in S THEN poll[p].times[i] + 1 ELSE poll[p].times[i]
  BY <1>0, AnswerTypes
<1>2. \A q \in Poll \ {p} : poll'[q] = poll[q]
  BY <1>0, AnswerTypes
<1>3. ASSUME NEW i \in Id
      PROVE  poll'[p].times[i] <= 1 /\ (poll'[p].times[i] > 0 => i <= poll'[p].offset)
  <2>1. top \in Id /\ top > poll[p].offset /\ i \in Nat /\ top \in Nat /\ poll[p].offset \in Nat
    BY <1>0, <1>1, MessagesAssumption DEF Id
  <2>2. poll[p].times[i] <= 1 /\ (poll[p].times[i] > 0 => i <= poll[p].offset)
    BY DEF GivenInv
  <2>3. CASE i \in S
    <3>1. ~(i <= poll[p].offset)
      BY <1>0, <2>1, <2>3
    <3>2. QED
      BY <1>0, <1>1, <2>2, <2>3, <3>1
  <2>4. CASE i \notin S
    BY <1>1, <2>1, <2>2, <2>4
  <2>5. QED
    BY <2>3, <2>4
<1>4. QED
  BY <1>2, <1>3 DEF GivenInv

\* A poll whose fields change other than by an answer
LEMMA PollMoved ==
  ASSUME TypeOK, GivenInv, NEW p \in Poll, NEW x \in PollState,
         poll' = [poll EXCEPT ![p] = x], x.times = poll[p].times, x.offset = poll[p].offset
  PROVE  GivenInv'
BY DEF TypeOK, GivenInv

LEMMA PollsStep == TypeOK /\ RowsInv /\ PollsInv /\ [Next]_vars => PollsInv'
<1> SUFFICES ASSUME TypeOK, RowsInv, PollsInv, [Next]_vars PROVE PollsInv'
  OBVIOUS
<1> USE MessagesAssumption
<1>0. /\ poll \in [Poll -> PollState] /\ waiters \in [Entity -> SUBSET Poll]
      /\ announced \in SUBSET Id /\ PollerOf \in [Poll -> Entity]
      /\ GivenInv /\ WaitersMatch /\ TokenInv
  BY DEF TypeOK, PollsInv
<1>1. ASSUME NEW s \in Sender, Announce(s) PROVE PollsInv'
  <2> DEFINE i == sender[s].event.id
  <2>1. msg' = msg /\ waiters' = waiters
    BY <1>1 DEF Announce, tableVars
  <2>2. CASE poll' = poll /\ announced' = announced
    BY <2>1, <2>2 DEF PollsInv, GivenInv, WaitersMatch, TokenInv, By
  <2>3. CASE /\ poll' = [p \in Poll |-> [poll[p] EXCEPT !.token = @ \/ p \in Woken(i)]]
             /\ announced' = announced \cup {i}
    <3>1. ASSUME NEW p \in Poll
          PROVE  /\ poll'[p].pc = poll[p].pc /\ poll'[p].offset = poll[p].offset
                 /\ poll'[p].times = poll[p].times /\ poll'[p].before = poll[p].before
                 /\ poll'[p].token = (poll[p].token \/ p \in Woken(i))
      <4>1. poll[p] \in PollState
        BY <1>0
      <4>2. poll'[p] = [poll[p] EXCEPT !.token = @ \/ p \in Woken(i)]
        BY <2>3
      <4>3. QED
        BY <4>1, <4>2 DEF PollState
    <3>2. ASSUME NEW p \in Poll, poll'[p].pc = "waiting", ~poll'[p].token, NEW j \in announced'
          PROVE  By(j)' = PollerOf[p] \/ j \in poll'[p].before
      <4>1. poll[p].pc = "waiting" /\ ~poll[p].token /\ p \notin Woken(i)
        BY <3>1, <3>2
      <4>2. p \in waiters[PollerOf[p]]
        BY <1>0, <4>1 DEF WaitersMatch
      <4>3. By(i) = PollerOf[p]
        BY <4>1, <4>2 DEF Woken
      <4>4. By(j)' = By(j)
        BY <2>1 DEF By
      <4>5. QED
        BY <1>0, <2>3, <3>1, <4>1, <4>3, <4>4 DEF TokenInv
    <3>3. QED
      BY <1>0, <2>1, <3>1, <3>2 DEF PollsInv, GivenInv, WaitersMatch, TokenInv
  <2>4. QED
    BY <1>1, <2>2, <2>3 DEF Announce
<1>2. ASSUME NEW p \in Poll, Polls(p) PROVE PollsInv'
  <2>0. msg' = msg /\ announced' = announced /\ \A i \in announced : By(i)' = By(i)
    BY <1>2 DEF Polls, PollQuery, PollRegister, PollWake, PollGivesUp, PollUnregister,
                tableVars, By
  <2>1. CASE PollQuery(p)
    <3> DEFINE S == Updates(poll[p].offset)
    <3>1. S \in SUBSET Id /\ waiters' = waiters /\ poll[p].pc = "ready"
      BY <2>1, UpdatesLater DEF PollQuery
    <3>2. CASE Answer(p, "ready", S)
      <4>1. poll'[p].pc = "ready" /\ \A q \in Poll \ {p} : poll'[q] = poll[q]
        BY <3>1, <3>2, AnswerTypes
      <4>2. GivenInv'
        BY <1>0, <3>2, AnswerGiven
      <4>3. QED
        BY <1>0, <2>0, <3>1, <4>1, <4>2 DEF PollsInv, WaitersMatch, TokenInv
    <3>3. CASE poll' = [poll EXCEPT ![p].pc = "register"]
      <4> DEFINE x == [poll[p] EXCEPT !.pc = "register"]
      <4>1. /\ x \in PollState
           /\ x.times = poll[p].times /\ x.offset = poll[p].offset
           /\ x.pc = "register"
        <5>1. x \in PollState
          BY <1>0, PollMove
        <5>2. poll[p] \in PollState
          BY <1>0
        <5>3. QED
          BY <5>1, <5>2 DEF PollState
      <4>2. GivenInv'
        BY <1>0, <3>3, <4>1, PollMoved
      <4>3. poll'[p].pc = "register" /\ \A q \in Poll \ {p} : poll'[q] = poll[q]
        BY <1>0, <3>3, <4>1
      <4>4. QED
        BY <1>0, <2>0, <3>1, <4>2, <4>3 DEF PollsInv, WaitersMatch, TokenInv
    <3>4. QED
      BY <2>1, <3>2, <3>3 DEF PollQuery
  <2>2. CASE PollRegister(p)
    <3> DEFINE x == [poll[p] EXCEPT !.pc = "waiting", !.token = FALSE, !.before = announced]
    <3>1. /\ x \in PollState
         /\ x.times = poll[p].times /\ x.offset = poll[p].offset
         /\ x.pc = "waiting" /\ x.before = announced
      <4>1. x \in PollState
        BY <1>0, PollMove
      <4>2. poll[p] \in PollState
        BY <1>0
      <4>3. QED
        BY <4>1, <4>2 DEF PollState
    <3>2. /\ poll' = [poll EXCEPT ![p] = x]
          /\ waiters' = [waiters EXCEPT ![PollerOf[p]] = @ \cup {p}]
      BY <2>2 DEF PollRegister
    <3>3. poll'[p] = x /\ \A q \in Poll \ {p} : poll'[q] = poll[q]
      BY <1>0, <3>2
    <3>4. GivenInv'
      BY <1>0, <3>1, <3>2, PollMoved
    <3>5. WaitersMatch'
      BY <1>0, <3>1, <3>2, <3>3 DEF WaitersMatch
    <3>6. TokenInv'
      BY <1>0, <2>0, <3>1, <3>3 DEF TokenInv
    <3>7. QED
      BY <3>4, <3>5, <3>6 DEF PollsInv
  <2>3. CASE PollWake(p)
    <3> DEFINE S == Updates(poll[p].offset)
    <3>1. S \in SUBSET Id /\ waiters' = waiters /\ poll[p].pc = "waiting"
      BY <2>3, UpdatesLater DEF PollWake
    <3>2. CASE Answer(p, "unregister", S)
      <4>1. poll'[p].pc = "unregister" /\ \A q \in Poll \ {p} : poll'[q] = poll[q]
        BY <3>1, <3>2, AnswerTypes
      <4>2. GivenInv'
        BY <1>0, <3>2, AnswerGiven
      <4>3. QED
        BY <1>0, <2>0, <3>1, <4>1, <4>2 DEF PollsInv, WaitersMatch, TokenInv
    <3>3. CASE poll' = [poll EXCEPT ![p] = [@ EXCEPT !.pc = "unregister", !.token = FALSE]]
      <4> DEFINE x == [poll[p] EXCEPT !.pc = "unregister", !.token = FALSE]
      <4>1. /\ x \in PollState
           /\ x.times = poll[p].times /\ x.offset = poll[p].offset
           /\ x.pc = "unregister"
        <5>1. x \in PollState
          BY <1>0, PollMove
        <5>2. poll[p] \in PollState
          BY <1>0
        <5>3. QED
          BY <5>1, <5>2 DEF PollState
      <4>2. GivenInv'
        BY <1>0, <3>3, <4>1, PollMoved
      <4>3. poll'[p].pc = "unregister" /\ \A q \in Poll \ {p} : poll'[q] = poll[q]
        BY <1>0, <3>3, <4>1
      <4>4. QED
        BY <1>0, <2>0, <3>1, <4>2, <4>3 DEF PollsInv, WaitersMatch, TokenInv
    <3>4. QED
      BY <2>3, <3>2, <3>3 DEF PollWake
  <2>4. CASE PollGivesUp(p)
    <3> DEFINE x == [poll[p] EXCEPT !.pc = "unregister"]
    <3>1. /\ x \in PollState
         /\ x.times = poll[p].times /\ x.offset = poll[p].offset
         /\ x.pc = "unregister"
      <4>1. x \in PollState
        BY <1>0, PollMove
      <4>2. poll[p] \in PollState
        BY <1>0
      <4>3. QED
        BY <4>1, <4>2 DEF PollState
    <3>2. poll' = [poll EXCEPT ![p] = x] /\ waiters' = waiters /\ poll[p].pc = "waiting"
      BY <2>4 DEF PollGivesUp
    <3>3. poll'[p] = x /\ \A q \in Poll \ {p} : poll'[q] = poll[q]
      BY <1>0, <3>2
    <3>4. GivenInv'
      BY <1>0, <3>1, <3>2, PollMoved
    <3>5. QED
      BY <1>0, <2>0, <3>1, <3>2, <3>3, <3>4 DEF PollsInv, WaitersMatch, TokenInv
  <2>5. CASE PollUnregister(p)
    <3> DEFINE x == [poll[p] EXCEPT !.pc = "ready", !.token = FALSE, !.before = {}]
    <3>1. /\ x \in PollState
         /\ x.times = poll[p].times /\ x.offset = poll[p].offset
         /\ x.pc = "ready"
      <4>1. x \in PollState
        BY <1>0, PollMove
      <4>2. poll[p] \in PollState
        BY <1>0
      <4>3. QED
        BY <4>1, <4>2 DEF PollState
    <3>2. /\ poll' = [poll EXCEPT ![p] = x]
          /\ waiters' = [waiters EXCEPT ![PollerOf[p]] = @ \ {p}]
      BY <2>5 DEF PollUnregister
    <3>3. poll'[p] = x /\ \A q \in Poll \ {p} : poll'[q] = poll[q]
      BY <1>0, <3>2
    <3>4. GivenInv'
      BY <1>0, <3>1, <3>2, PollMoved
    <3>5. WaitersMatch'
      BY <1>0, <3>1, <3>2, <3>3 DEF WaitersMatch
    <3>6. TokenInv'
      BY <1>0, <2>0, <3>1, <3>3 DEF TokenInv
    <3>7. QED
      BY <3>4, <3>5, <3>6 DEF PollsInv
  <2>6. QED
    BY <1>2, <2>1, <2>2, <2>3, <2>4, <2>5 DEF Polls
<1>3. ASSUME NEW c \in Client, Connection(c) PROVE PollsInv'
  BY <1>3, PollsUntouched DEF PollsInv, Connection, Connect, Subscribe, Close, Write,
     CatchUpQuery, CatchUpSend, CatchUpEnd
<1>4. ASSUME NEW s \in Sender, Sends(s), ~Announce(s) PROVE PollsInv'
  BY <1>4, PollsUntouched DEF Sends, Insert, Commit, ReadForChange, EditWrite, RevokeWrite,
     ChangeFails, Snapshot, SendTo, SendPanics
<1>5. CASE UNCHANGED vars
  BY <1>5, PollsUntouched DEF vars, pollVars
<1>6. QED
  BY <1>1, <1>2, <1>3, <1>4, <1>5 DEF Next
-----------------------------------------------------------------------------
\* What is in the log of a connection is behind what its sender sends now: older,
\* or the very message, the connection having been served.
Behind(c, u) ==
  u.type = "new" /\ u.live =>
    /\ msg[u.id] # NoRow /\ msg[u.id].state = "stored"
    /\ LET s == msg[u.id].via
       IN sender[s].pc # "idle" /\ sender[s].event.type = "new" =>
            \/ u.id < sender[s].event.id
            \/ /\ u.id = sender[s].event.id
               /\ sender[s].pc = "sending" /\ c \notin sender[s].todo

Logged(c, u) == \E a \in 1..Len(log[c]) : log[c][a] = u

LogsBehind == \A c \in Client, u \in Event : Logged(c, u) => Behind(c, u)

OrderInv == LogsBehind /\ SenderOrder

LEMMA LogShape ==
  ASSUME TypeOK, NEW c \in Client, NEW a \in 1..Len(log[c])
  PROVE  /\ log[c][a] \in Event /\ log[c][a].id \in Id
         /\ Logged(c, log[c][a])
<1>1. log[c] \in Seq(Event)
  BY DEF TypeOK
<1>2. log[c][a] \in Event
  BY <1>1
<1>3. QED
  BY <1>2 DEF Event, Logged

\* What makes an entry stay behind when its sender moves
Moves(s, x) ==
  \/ x.pc = "idle"
  \/ x.event.type # "new"
  \/ x.event.id = nextId
  \/ /\ sender[s].pc # "idle"
     /\ x.event.id = sender[s].event.id /\ x.event.type = sender[s].event.type
     /\ sender[s].pc = "sending" => x.pc = "sending" /\ x.todo \subseteq sender[s].todo

LEMMA StaysBehind ==
  ASSUME TypeOK, RowsInv, [Next]_vars, NEW s \in Sender, NEW x, Go(s, x), Moves(s, x),
         NEW c \in Client, NEW u \in Event, Behind(c, u)
  PROVE  Behind(c, u)'
<1> SUFFICES ASSUME u.type = "new", u.live PROVE Behind(c, u)'
  BY DEF Behind
<1>1. u.id \in Id /\ msg[u.id] # NoRow /\ msg[u.id].state = "stored" /\ u.id \in Nat
  BY MessagesAssumption DEF Behind, Event, Id
<1>2. msg'[u.id] # NoRow /\ msg'[u.id].state = "stored" /\ msg'[u.id].via = msg[u.id].via
  BY <1>1, RowsStay
<1>3. u.id < nextId /\ nextId \in Nat
  BY <1>1, MessagesAssumption DEF RowsInv, TypeOK
<1> DEFINE t == msg[u.id].via
<1>4. t \in Sender
  BY <1>1 DEF TypeOK, Row
<1>5. CASE t # s
  <2>1. sender'[t] = sender[t]
    BY <1>4, <1>5 DEF Go, TypeOK
  <2>2. QED
    BY <1>1, <1>2, <2>1 DEF Behind
<1>6. CASE t = s
  <2>1. sender'[t] = x
    BY <1>4, <1>6 DEF Go, TypeOK
  <2>2. QED
    BY <1>1, <1>2, <1>3, <1>6, <2>1 DEF Behind, Moves
<1>7. QED
  BY <1>5, <1>6

\* A step that moves a sender and leaves the logs
LEMMA OrderMoved ==
  ASSUME TypeOK, RowsInv, OrderInv, [Next]_vars, NEW s \in Sender, NEW x, Go(s, x),
         Moves(s, x), log' = log
  PROVE  OrderInv'
<1>1. \A c \in Client, u \in Event : Logged(c, u) => Behind(c, u)'
  BY StaysBehind DEF OrderInv, LogsBehind
<1>2. \A c \in Client : \A a \in 1..Len(log[c]) :
        log[c][a].type = "new" /\ log[c][a].live =>
          msg'[log[c][a].id].via = msg[log[c][a].id].via
  <2>1. ASSUME NEW c \in Client, NEW a \in 1..Len(log[c]),
               log[c][a].type = "new", log[c][a].live
        PROVE  msg'[log[c][a].id].via = msg[log[c][a].id].via
    <3>1. Behind(c, log[c][a]) /\ log[c][a].id \in Id
      BY LogShape DEF OrderInv, LogsBehind
    <3>2. QED
      BY <2>1, <3>1, RowsStay DEF Behind
  <2>2. QED
    BY <2>1
<1>3. SenderOrder'
  BY <1>2 DEF OrderInv, SenderOrder
<1>4. LogsBehind'
  BY <1>1 DEF LogsBehind, Logged
<1>5. QED
  BY <1>3, <1>4 DEF OrderInv

\* A step that moves no sender and no row: what is added to a log comes last
LEMMA LogGrows ==
  ASSUME TypeOK, OrderInv, NEW c \in Client, NEW v \in Event, Put(c, v), msg' = msg,
         \A k \in Client, u \in Event : Behind(k, u) => Behind(k, u)', Behind(c, v)',
         v.type = "new" /\ v.live =>
           \A a \in 1..Len(log[c]) :
             LET u == log[c][a]
             IN u.type = "new" /\ u.live /\ msg[u.id].via = msg[v.id].via => u.id < v.id
  PROVE  OrderInv'
<1>1. CASE log' = log
  <2>1. LogsBehind'
    BY <1>1 DEF OrderInv, LogsBehind, Logged
  <2>2. QED
    BY <1>1, <2>1 DEF OrderInv, SenderOrder
<1>2. CASE log' = [log EXCEPT ![c] = Append(@, v)]
  <2>1. /\ log[c] \in Seq(Event) /\ Len(log[c]) \in Nat
        /\ log'[c] = Append(log[c], v) /\ \A k \in Client \ {c} : log'[k] = log[k]
    BY <1>2 DEF TypeOK
  <2>2. /\ Len(log'[c]) = Len(log[c]) + 1 /\ log'[c][Len(log[c]) + 1] = v
        /\ \A a \in 1..Len(log[c]) : log'[c][a] = log[c][a]
    BY <2>1
  <2>3. ASSUME NEW k \in Client, NEW u \in Event, NEW a \in 1..Len(log'[k]), log'[k][a] = u
        PROVE  Behind(k, u)'
    <3>1. CASE k = c /\ a = Len(log[c]) + 1
      BY <2>2, <2>3, <3>1
    <3>2. CASE ~(k = c /\ a = Len(log[c]) + 1)
      <4>1. a \in 1..Len(log[k]) /\ log[k][a] = u
        BY <2>1, <2>2, <2>3, <3>2
      <4>2. Logged(k, u)
        BY <4>1 DEF Logged
      <4>3. QED
        BY <4>2 DEF OrderInv, LogsBehind
    <3>3. QED
      BY <3>1, <3>2
  <2>4. SenderOrder'
    <3>1. SUFFICES ASSUME NEW k \in Client, NEW a \in 1..Len(log'[k]), NEW b \in 1..Len(log'[k]),
                          a < b, log'[k][a].type = "new", log'[k][b].type = "new",
                          log'[k][a].live, log'[k][b].live,
                          msg[log'[k][a].id].via = msg[log'[k][b].id].via
                   PROVE  log'[k][a].id < log'[k][b].id
      BY DEF SenderOrder
    <3>2. CASE k = c /\ b = Len(log[c]) + 1
      <4>1. a \in 1..Len(log[c]) /\ log'[c][a] = log[c][a] /\ log'[c][b] = v
        BY <2>1, <2>2, <3>1, <3>2
      <4>2. QED
        BY <3>1, <3>2, <4>1
    <3>3. CASE ~(k = c /\ b = Len(log[c]) + 1)
      <4>1. /\ a \in 1..Len(log[k]) /\ b \in 1..Len(log[k])
            /\ log'[k][a] = log[k][a] /\ log'[k][b] = log[k][b]
        <5>1. CASE k = c
          <6>1. a < b /\ b \in 1..Len(log[c]) + 1 /\ b # Len(log[c]) + 1 /\ a \in 1..Len(log[c]) + 1
            BY <2>2, <3>1, <3>3, <5>1
          <6>2. a \in 1..Len(log[c]) /\ b \in 1..Len(log[c])
            BY <2>1, <6>1
          <6>3. QED
            BY <2>2, <5>1, <6>2
        <5>2. CASE k # c
          BY <2>1, <3>1, <5>2
        <5>3. QED
          BY <5>1, <5>2
      <4>2. QED
        BY <3>1, <4>1 DEF OrderInv, SenderOrder
    <3>4. QED
      BY <3>2, <3>3
  <2>5. QED
    BY <2>3, <2>4 DEF OrderInv, LogsBehind, Logged
<1>3. QED
  BY <1>1, <1>2 DEF Put

LEMMA OrderUntouched ==
  ASSUME OrderInv, msg' = msg, sender' = sender, log' = log
  PROVE  OrderInv'
<1>1. \A c \in Client, u \in Event : Behind(c, u) => Behind(c, u)'
  BY DEF Behind
<1>2. LogsBehind'
  BY <1>1 DEF OrderInv, LogsBehind, Logged
<1>3. QED
  BY <1>2 DEF OrderInv, SenderOrder

LEMMA OrderInit == Init => OrderInv
BY DEF Init, OrderInv, LogsBehind, Logged, SenderOrder

LEMMA OrderStep == TypeOK /\ RowsInv /\ OrderInv /\ [Next]_vars => OrderInv'
<1> SUFFICES ASSUME TypeOK, RowsInv, OrderInv, [Next]_vars PROVE OrderInv'
  OBVIOUS
<1>0. sender \in [Sender -> SenderState]
  BY DEF TypeOK
<1>1. ASSUME NEW s \in Sender, NEW d \in Draft, NEW x \in Text, Insert(s, d, x) PROVE OrderInv'
  <2>1. Moves(s, Busy("insert", "new", nextId))
    BY DEF Moves, Busy
  <2>2. QED
    BY <1>1, <2>1, OrderMoved DEF Insert, connVars
<1>2. ASSUME NEW s \in Sender, Commit(s) PROVE OrderInv'
  <2>1. sender[s].event.type = "new" => Moves(s, Busy("snapshot", "new", sender[s].event.id))
    BY <1>2 DEF Commit, Moves, Busy
  <2>2. Moves(s, Idle)
    BY DEF Moves, Idle
  <2>3. sender[s].event.type = "new" => OrderInv'
    BY <1>2, <2>1, <2>2, OrderMoved DEF Commit, connVars
  <2>4. sender[s].event.type = "new"
    BY <1>2 DEF Commit, RowsInv
  <2>5. QED
    BY <2>3, <2>4
<1>3. ASSUME NEW s \in Sender, NEW i \in Id, NEW kind \in {"edit", "revoke"},
             ReadForChange(s, i, kind)
      PROVE OrderInv'
  <2> DEFINE x == Busy(kind, IF kind = "edit" THEN "updated" ELSE "revoked", i)
  <2>1. Moves(s, x)
    BY DEF Moves, Busy
  <2>2. Go(s, x) /\ log' = log
    BY <1>3 DEF ReadForChange, connVars
  <2>3. QED
    BY <2>1, <2>2, OrderMoved
<1>4. ASSUME NEW s \in Sender, NEW x \in Text, EditWrite(s, x) PROVE OrderInv'
  <2>1. Moves(s, Busy("snapshot", "updated", sender[s].event.id))
    BY DEF Moves, Busy
  <2>2. QED
    BY <1>4, <2>1, OrderMoved DEF EditWrite, connVars
<1>5. ASSUME NEW s \in Sender, RevokeWrite(s) PROVE OrderInv'
  <2>1. Moves(s, Busy("snapshot", "revoked", sender[s].event.id))
    BY DEF Moves, Busy
  <2>2. QED
    BY <1>5, <2>1, OrderMoved DEF RevokeWrite, connVars
<1>6. ASSUME NEW s \in Sender,
             ChangeFails(s) \/ Announce(s) \/ \E c \in Client : SendPanics(s, c)
      PROVE OrderInv'
  <2>1. Moves(s, Idle)
    BY DEF Moves, Idle
  <2>2. QED
    BY <1>6, <2>1, OrderMoved DEF ChangeFails, Announce, SendPanics, connVars
<1>7. ASSUME NEW s \in Sender, Snapshot(s) PROVE OrderInv'
  <2>1. PICK read \in SUBSET Reads, cs \in SUBSET Client : Go(s, Sending(sender[s].event, cs, read))
    BY <1>7, SnapshotShape
  <2>2. Moves(s, Sending(sender[s].event, cs, read))
    BY <1>7 DEF Snapshot, Moves, Sending
  <2>3. QED
    BY <1>7, <2>1, <2>2, OrderMoved DEF Snapshot, connVars
<1>8. ASSUME NEW s \in Sender, NEW c \in Client, SendTo(s, c) PROVE OrderInv'
  <2>0. PICK v \in Event : v = sender[s].event
    BY <1>8, SenderShape DEF SendTo
  <2> DEFINE x == [sender[s] EXCEPT !.todo = @ \ {c}]
  <2>1. /\ v \in Event /\ v.id \in Id /\ Put(c, v) /\ Go(s, x) /\ msg' = msg
        /\ sender[s].pc = "sending" /\ c \in sender[s].todo
    BY <1>8, <2>0, SenderShape DEF SendTo, tableVars
  <2>2. /\ x.pc = "sending" /\ x.event = v /\ x.todo = sender[s].todo \ {c}
        /\ sender'[s] = x
    <3>1. sender[s] \in SenderState /\ sender[s] # Idle
      BY <1>0, <2>1 DEF Idle
    <3>2. QED
      BY <1>0, <2>0, <2>1, <3>1 DEF SenderState, Go
  <2>3. Moves(s, x)
    BY <2>0, <2>1, <2>2 DEF Moves
  <2>4. \A k \in Client, u \in Event : Behind(k, u) => Behind(k, u)'
    BY <2>1, <2>3, StaysBehind
  <2>5. /\ msg[v.id] # NoRow /\ msg[v.id].state = "stored"
        /\ v.type = "new" => msg[v.id].via = s
    BY <2>0, <2>1 DEF RowsInv
  <2>6. Behind(c, v)'
    BY <2>1, <2>2, <2>5 DEF Behind
  <2>7. ASSUME v.type = "new", v.live, NEW a \in 1..Len(log[c]),
               log[c][a].type = "new", log[c][a].live,
               msg[log[c][a].id].via = msg[v.id].via
        PROVE  log[c][a].id < v.id
    <3>1. Behind(c, log[c][a])
      BY LogShape DEF OrderInv, LogsBehind
    <3>2. QED
      BY <2>0, <2>1, <2>5, <2>7, <3>1 DEF Behind
  <2>8. QED
    BY <2>1, <2>4, <2>6, <2>7, LogGrows
<1>9. ASSUME NEW c \in Client, NEW i \in Id, CatchUpSend(c, i) PROVE OrderInv'
  <2> DEFINE v == [type |-> "new", id |-> i, live |-> FALSE]
  <2>1. msg' = msg /\ sender' = sender /\ (log' = log \/ Put(c, v))
    BY <1>9 DEF CatchUpSend, tableVars
  <2>2. v \in Event
    BY DEF Event
  <2>3. Behind(c, v)' /\ \A k \in Client, u \in Event : Behind(k, u) => Behind(k, u)'
    BY <2>1 DEF Behind
  <2>4. QED
    BY <2>1, <2>2, <2>3, LogGrows, OrderUntouched
<1>10. ASSUME NEW c \in Client, Connection(c), \A i \in Id : ~CatchUpSend(c, i) PROVE OrderInv'
  BY <1>10, OrderUntouched DEF Connection, Connect, Subscribe, Close, Write, CatchUpQuery,
     CatchUpEnd, tableVars
<1>11. ASSUME NEW p \in Poll, Polls(p) PROVE OrderInv'
  BY <1>11, OrderUntouched DEF Polls, PollQuery, PollRegister, PollWake, PollGivesUp,
     PollUnregister, tableVars, connVars
<1>12. CASE UNCHANGED vars
  BY <1>12, OrderUntouched DEF vars
<1>13. QED
  BY <1>1, <1>2, <1>3, <1>4, <1>5, <1>6, <1>7, <1>8, <1>9, <1>10, <1>11, <1>12
  DEF Next, Sends
-----------------------------------------------------------------------------
MessagesInv == TypeOK /\ RowsInv /\ PollsInv /\ OrderInv

LEMMA MessagesInvariant == Spec => []MessagesInv
<1>1. Init => MessagesInv
  BY TypesInit, PollsInit, OrderInit DEF MessagesInv
<1>2. MessagesInv /\ [Next]_vars => MessagesInv'
  BY TypesStep, RowsStep, PollsStep, OrderStep DEF MessagesInv
<1>3. QED
  BY <1>1, <1>2, PTL DEF Spec

\* Every variable keeps its type, and no send channel holds more than its
\* capacity or is read past its end.
THEOREM MessagesTypes == Spec => []TypeOK
BY MessagesInvariant, PTL DEF MessagesInv

\* No revocation is ever taken back, whatever edits overlap it.
THEOREM RevocationsStay == Spec => RevokedStays
<1>1. MessagesInv /\ [Next]_vars =>
        [\A i \in Id : (msg[i] # NoRow /\ msg[i].revoked) => msg'[i].revoked]_vars
  BY RowsStay DEF MessagesInv
<1>2. QED
  BY <1>1, MessagesInvariant, PTL DEF Spec, RevokedStays

\* No polling loop is given a message twice (HandleUpdates wakes up and asks
\* again in two steps, and edits change what it was given), and no waiter is left
\* behind in h.waiters.
THEOREM PollsAnswerOnce == Spec => [](F!Once /\ WaitersMatch)
<1>1. MessagesInv => F!Once /\ WaitersMatch
  BY DEF MessagesInv, PollsInv, GivenInv, F!Once, F!Id, Id
<1>2. QED
  BY <1>1, MessagesInvariant, PTL

\* A poll sleeps past a message only in the cases SleepsOnlyWhen lists: among them,
\* that BroadcastMessage panicked or could not read the participants and notified
\* nobody.
THEOREM WakeUpsNotLost == Spec => []SleepsOnlyWhen
<1>1. MessagesInv => SleepsOnlyWhen
  BY DEF MessagesInv, PollsInv, TokenInv, SleepsOnlyWhen
<1>2. QED
  BY <1>1, MessagesInvariant, PTL

\* What one goroutine sends reaches every connection in the order it sent it.
THEOREM SendersAreOrdered == Spec => []SenderOrder
<1>1. MessagesInv => SenderOrder
  BY DEF MessagesInv, OrderInv
<1>2. QED
  BY <1>1, MessagesInvariant, PTL
-----------------------------------------------------------------------------
(* Long polling implements Feed *)

\* A page is a prefix: what lies below a member of it is in it too.
LEMMA PageIsPrefix ==
  ASSUME NEW S \in SUBSET Id, NEW i \in Page(S), NEW j \in S, j <= i
  PROVE  j \in Page(S)
<1>1. IsFiniteSet(S) /\ i \in Id /\ j \in Id
  <2>1. IsFiniteSet(Id)
    BY FS_Interval, MessagesAssumption DEF Id
  <2>2. QED
    BY <2>1, FS_Subset DEF Page
<1>2. {k \in S : k < j} \subseteq {k \in S : k < i}
  <2> SUFFICES ASSUME NEW k \in S, k < j PROVE k < i
    OBVIOUS
  <2>1. k \in Int /\ j \in Int /\ i \in Int
    BY <1>1, MessagesAssumption DEF Id
  <2>2. QED
    BY <2>1
<1>3. IsFiniteSet({k \in S : k < i})
  BY <1>1, FS_Subset
<1>4. /\ Cardinality({k \in S : k < j}) \in Nat /\ Cardinality({k \in S : k < i}) \in Nat
      /\ Cardinality({k \in S : k < j}) <= Cardinality({k \in S : k < i})
  <2>1. IsFiniteSet({k \in S : k < j}) /\ Cardinality({k \in S : k < j}) <= Cardinality({k \in S : k < i})
    BY <1>2, <1>3, FS_Subset
  <2>2. QED
    BY <1>3, <2>1, FS_CardinalityType
<1>5. Cardinality({k \in S : k < i}) < PageSize /\ PageSize \in Nat
  BY MessagesAssumption DEF Page
<1>6. Cardinality({k \in S : k < j}) < PageSize
  BY <1>4, <1>5
<1>7. QED
  BY <1>6 DEF Page

\* An answer holds all that Feed lets a reader read up to the largest id it holds.
LEMMA AnswerIsComplete ==
  ASSUME TypeOK, NEW p \in Poll, NEW top \in Updates(poll[p].offset),
         \A i \in Updates(poll[p].offset) : i <= top
  PROVE  Updates(poll[p].offset) = F!Between(poll[p].offset, top)
<1> DEFINE n == poll[p].offset
           S == {i \in Id : Visible(i) /\ i > n}
<1>1. Updates(n) = Page(S) /\ S \in SUBSET Id
  BY DEF Updates
<1>2. n \in Nat /\ \A i \in Id : i \in Nat
  BY MessagesAssumption DEF TypeOK, PollState, Id
<1>3. S = {i \in F!Readable : n < i}
  BY <1>2 DEF F!Readable, Visible
<1>4. \A i \in Updates(n) : i \in S /\ i <= top
  BY <1>1 DEF Page
<1>5. \A i \in S : i <= top => i \in Updates(n)
  BY <1>1, PageIsPrefix
<1>6. QED
  BY <1>3, <1>4, <1>5 DEF F!Between

LEMMA AnswerGives ==
  ASSUME TypeOK, NEW p \in Poll, NEW pc \in {"ready", "unregister"}, msg' = msg,
         Answer(p, pc, Updates(poll[p].offset))
  PROVE  F!Next
<1> DEFINE S == Updates(poll[p].offset)
<1>0. S \in SUBSET Id /\ poll \in [Poll -> PollState] /\ poll[p].offset \in Nat
  BY UpdatesLater, MessagesAssumption DEF TypeOK, PollState
<1>1. PICK top \in S : /\ \A i \in S : i <= top
                       /\ poll'[p].offset = top
                       /\ \A i \in Id : poll'[p].times[i] =
                            IF i \in S THEN poll[p].times[i] + 1 ELSE poll[p].times[i]
  BY <1>0, AnswerTypes
<1>2. poll' \in [Poll -> PollState] /\ \A q \in Poll \ {p} : poll'[q] = poll[q]
  BY <1>0, AnswerTypes
<1>3. S = F!Between(poll[p].offset, top)
  BY <1>1, AnswerIsComplete
<1>4. \A q \in Poll : poll[q].times \in [Id -> Nat] /\ poll'[q].times \in [Id -> Nat]
  BY <1>0, <1>2 DEF PollState
<1> HIDE DEF S
<1>5. [q \in Poll |-> poll'[q].offset] = [[q \in Poll |-> poll[q].offset] EXCEPT ![p] = top]
  BY <1>1, <1>2
<1>6. poll'[p].times = [i \in Id |-> IF i \in S THEN poll[p].times[i] + 1 ELSE poll[p].times[i]]
  BY <1>1, <1>4
<1>7. [q \in Poll |-> poll'[q].times] =
        [[q \in Poll |-> poll[q].times] EXCEPT ![p] =
           [i \in Id |-> IF i \in S THEN poll[p].times[i] + 1 ELSE poll[p].times[i]]]
  BY <1>2, <1>6
<1>8. F!Id = Id
  BY DEF F!Id, Id
<1>9. [q \in Poll |-> poll[q].offset][p] = poll[p].offset
      /\ [q \in Poll |-> poll[q].times][p] = poll[p].times
  OBVIOUS
<1>10. top \in S /\ top \in Id
  BY <1>0, <1>1
<1>11. F!Give(p, top)
  BY <1>3, <1>5, <1>7, <1>8, <1>9, <1>10 DEF F!Give
<1>12. QED
  BY <1>8, <1>10, <1>11 DEF F!Next

LEMMA FeedInit == Init => F!Init
BY DEF Init, F!Init, Id, F!Id, NoRow

\* A step that changes neither what is stored nor what a loop was given
LEMMA FeedUntouched ==
  ASSUME TypeOK,
         \A i \in Id : /\ msg'[i].state = "stored" <=> msg[i].state = "stored"
                       /\ msg'[i].state = "stored" => msg'[i].revoked = msg[i].revoked,
         \A p \in Poll : poll'[p].offset = poll[p].offset /\ poll'[p].times = poll[p].times
  PROVE  UNCHANGED F!feedVars
BY DEF F!feedVars

LEMMA SenderFeeds ==
  ASSUME TypeOK, RowsInv, NEW s \in Sender, Sends(s)
  PROVE  F!Next \/ UNCHANGED F!feedVars
<1>0. /\ msg \in [Id -> {NoRow} \cup Row] /\ poll \in [Poll -> PollState]
      /\ F!Id = Id
  BY DEF TypeOK, Id, F!Id
<1> DEFINE i == sender[s].event.id
<1>1. ASSUME NEW d \in Draft, NEW x \in Text, Insert(s, d, x) PROVE UNCHANGED F!feedVars
  <2> DEFINE r == [state |-> "pending", revoked |-> FALSE, via |-> s, draft |-> d, text |-> x]
  <2>1. /\ nextId \in Id /\ msg[nextId].state # "stored" /\ r.state # "stored"
        /\ msg' = [msg EXCEPT ![nextId] = r] /\ poll' = poll
    BY <1>1 DEF Insert, RowsInv, Id, NoRow, pollVars
  <2> HIDE DEF r
  <2>2. \A j \in Id : msg'[j] = IF j = nextId THEN r ELSE msg[j]
    BY <1>0, <2>1
  <2>3. QED
    BY <2>1, <2>2, FeedUntouched
<1>2. CASE Commit(s)
  <2>1. i \in Id /\ msg[i] \in Row /\ msg[i].state # "stored" /\ msg[i].revoked = FALSE /\ poll' = poll
    BY <1>0, <1>2, SenderShape DEF Commit, RowsInv, pollVars
  <2>2. CASE msg' = [msg EXCEPT ![i] = NoRow]
    <3>1. \A j \in Id : msg'[j] = IF j = i THEN NoRow ELSE msg[j]
      BY <1>0, <2>2
    <3>2. NoRow.state # "stored"
      BY DEF NoRow
    <3>3. QED
      BY <2>1, <3>1, <3>2, FeedUntouched
  <2>3. CASE msg' = [msg EXCEPT ![i].state = "stored"]
    <3> DEFINE r == [msg[i] EXCEPT !.state = "stored"]
    <3>1. r.state = "stored" /\ r.revoked = FALSE
      BY <2>1 DEF Row
    <3>2. \A j \in Id : msg'[j] = IF j = i THEN r ELSE msg[j]
      BY <1>0, <2>3
    <3> HIDE DEF r
    <3>3. {j \in Id : msg'[j].state = "stored"} = {j \in Id : msg[j].state = "stored"} \cup {i}
      BY <2>1, <3>1, <3>2
    <3>4. {j \in Id : msg'[j].state = "stored" /\ msg'[j].revoked}
            = {j \in Id : msg[j].state = "stored" /\ msg[j].revoked}
      BY <2>1, <3>1, <3>2
    <3>5. i \notin {j \in Id : msg[j].state = "stored"}
      BY <2>1
    <3>6. PICK j \in Id : j = i
      BY <2>1
    <3>7. F!Store(j)
      BY <2>1, <3>3, <3>4, <3>5, <3>6 DEF F!Store
    <3>8. QED
      BY <1>0, <3>7 DEF F!Next
  <2>4. QED
    BY <1>2, <2>2, <2>3 DEF Commit
<1>3. ASSUME NEW x \in Text, EditWrite(s, x) PROVE UNCHANGED F!feedVars
  <2>1. i \in Id /\ msg[i] \in Row /\ poll' = poll /\ msg' = [msg EXCEPT ![i].text = x]
    BY <1>0, <1>3, SenderShape DEF EditWrite, RowsInv, pollVars
  <2> DEFINE r == [msg[i] EXCEPT !.text = x]
  <2>2. r.state = msg[i].state /\ r.revoked = msg[i].revoked
    BY <2>1 DEF Row
  <2>3. \A j \in Id : msg'[j] = IF j = i THEN r ELSE msg[j]
    BY <1>0, <2>1
  <2> HIDE DEF r
  <2>4. QED
    BY <2>1, <2>2, <2>3, FeedUntouched
<1>4. CASE RevokeWrite(s)
  <2>1. /\ i \in Id /\ msg[i] \in Row /\ poll' = poll /\ msg[i].state = "stored"
        /\ msg' = [msg EXCEPT ![i].revoked = TRUE]
    BY <1>0, <1>4, SenderShape DEF RevokeWrite, RowsInv, pollVars
  <2> DEFINE r == [msg[i] EXCEPT !.revoked = TRUE]
  <2>2. r.state = "stored" /\ r.revoked
    BY <2>1 DEF Row
  <2>3. \A j \in Id : msg'[j] = IF j = i THEN r ELSE msg[j]
    BY <1>0, <2>1
  <2> HIDE DEF r
  <2>4. {j \in Id : msg'[j].state = "stored"} = {j \in Id : msg[j].state = "stored"}
    BY <2>1, <2>2, <2>3
  <2>5. {j \in Id : msg'[j].state = "stored" /\ msg'[j].revoked}
          = {j \in Id : msg[j].state = "stored" /\ msg[j].revoked} \cup {i}
    BY <2>1, <2>2, <2>3
  <2>6. PICK j \in Id : j = i
    BY <2>1
  <2>7. F!Withdraw(j)
    BY <2>1, <2>4, <2>5, <2>6 DEF F!Withdraw
  <2>8. QED
    BY <1>0, <2>7 DEF F!Next
<1>5. CASE Announce(s)
  <2>1. msg' = msg
    BY <1>5 DEF Announce, tableVars
  <2>2. ASSUME NEW p \in Poll
        PROVE  poll'[p].offset = poll[p].offset /\ poll'[p].times = poll[p].times
    <3>1. CASE poll' = poll
      BY <3>1
    <3>2. CASE poll' = [q \in Poll |-> [poll[q] EXCEPT !.token = @ \/ q \in Woken(i)]]
      BY <1>0, <3>2 DEF PollState
    <3>3. QED
      BY <1>5, <3>1, <3>2 DEF Announce
  <2>3. QED
    BY <2>1, <2>2, FeedUntouched
<1>6. CASE \/ \E k \in Id, kind \in {"edit", "revoke"} : ReadForChange(s, k, kind)
           \/ ChangeFails(s) \/ Snapshot(s) \/ \E c \in Client : SendTo(s, c) \/ SendPanics(s, c)
  <2>1. msg' = msg /\ poll' = poll
    BY <1>6 DEF ReadForChange, ChangeFails, Snapshot, SendTo, SendPanics, tableVars, pollVars
  <2>2. QED
    BY <2>1, FeedUntouched
<1>7. QED
  BY <1>1, <1>2, <1>3, <1>4, <1>5, <1>6 DEF Sends

LEMMA PollFeeds ==
  ASSUME TypeOK, NEW p \in Poll, Polls(p)
  PROVE  F!Next \/ UNCHANGED F!feedVars
<1>0. msg' = msg /\ poll \in [Poll -> PollState] /\ poll[p] \in PollState
  BY DEF TypeOK, Polls, PollQuery, PollRegister, PollWake, PollGivesUp, PollUnregister, tableVars
<1>1. CASE \E pc \in {"ready", "unregister"} : Answer(p, pc, Updates(poll[p].offset))
  BY <1>0, <1>1, AnswerGives
<1>2. CASE \E x \in PollState :
             poll' = [poll EXCEPT ![p] = x] /\ x.offset = poll[p].offset /\ x.times = poll[p].times
  BY <1>0, <1>2, FeedUntouched
<1>3. ASSUME NEW pc \in {"ready", "register", "waiting", "unregister"}, NEW t \in BOOLEAN,
             NEW b \in SUBSET Id
      PROVE  /\ [poll[p] EXCEPT !.pc = pc].offset = poll[p].offset
             /\ [poll[p] EXCEPT !.pc = pc].times = poll[p].times
             /\ [poll[p] EXCEPT !.pc = pc, !.token = t].offset = poll[p].offset
             /\ [poll[p] EXCEPT !.pc = pc, !.token = t].times = poll[p].times
             /\ [poll[p] EXCEPT !.pc = pc, !.token = t, !.before = b].offset = poll[p].offset
             /\ [poll[p] EXCEPT !.pc = pc, !.token = t, !.before = b].times = poll[p].times
  BY <1>0 DEF PollState
<1>4. CASE PollQuery(p)
  <2>1. CASE Answer(p, "ready", Updates(poll[p].offset))
    BY <1>1, <2>1
  <2>2. CASE poll' = [poll EXCEPT ![p] = [poll[p] EXCEPT !.pc = "register"]]
    BY <1>2, <1>3, <2>2, PollMove
  <2>3. QED
    BY <1>4, <2>1, <2>2 DEF PollQuery
<1>5. CASE PollRegister(p)
  <2>1. announced \in SUBSET Id
    BY DEF TypeOK
  <2>2. poll' = [poll EXCEPT ![p] = [poll[p] EXCEPT !.pc = "waiting", !.token = FALSE,
                                                    !.before = announced]]
    BY <1>5 DEF PollRegister
  <2> DEFINE x == [poll[p] EXCEPT !.pc = "waiting", !.token = FALSE, !.before = announced]
  <2>3. x \in PollState /\ x.offset = poll[p].offset /\ x.times = poll[p].times
    BY <1>3, <2>1, PollMove
  <2> HIDE DEF x
  <2>4. QED
    BY <1>2, <2>2, <2>3 DEF x
<1>6. CASE PollWake(p)
  <2>1. CASE Answer(p, "unregister", Updates(poll[p].offset))
    BY <1>1, <2>1
  <2>2. CASE poll' = [poll EXCEPT ![p] = [poll[p] EXCEPT !.pc = "unregister", !.token = FALSE]]
    BY <1>2, <1>3, <2>2, PollMove
  <2>3. QED
    BY <1>6, <2>1, <2>2 DEF PollWake
<1>7. CASE PollGivesUp(p)
  <2>1. poll' = [poll EXCEPT ![p] = [poll[p] EXCEPT !.pc = "unregister"]]
    BY <1>7 DEF PollGivesUp
  <2>2. QED
    BY <1>2, <1>3, <2>1, PollMove
<1>8. CASE PollUnregister(p)
  <2>1. poll' = [poll EXCEPT ![p] = [poll[p] EXCEPT !.pc = "ready", !.token = FALSE, !.before = {}]]
    BY <1>8 DEF PollUnregister
  <2> DEFINE x == [poll[p] EXCEPT !.pc = "ready", !.token = FALSE, !.before = {}]
  <2>2. x \in PollState /\ x.offset = poll[p].offset /\ x.times = poll[p].times
    BY <1>3, PollMove
  <2> HIDE DEF x
  <2>3. QED
    BY <1>2, <2>1, <2>2 DEF x
<1>9. QED
  BY <1>4, <1>5, <1>6, <1>7, <1>8 DEF Polls

LEMMA FeedStep == MessagesInv /\ [Next]_vars => [F!Next]_(F!feedVars)
<1> SUFFICES ASSUME MessagesInv, [Next]_vars PROVE F!Next \/ UNCHANGED F!feedVars
  OBVIOUS
<1>0. TypeOK /\ RowsInv
  BY DEF MessagesInv
<1>1. CASE msg' = msg /\ poll' = poll
  BY <1>0, <1>1, FeedUntouched
<1>2. ASSUME NEW c \in Client, Connection(c) PROVE msg' = msg /\ poll' = poll
  BY <1>2 DEF Connection, Connect, Subscribe, Close, Write, CatchUpQuery, CatchUpSend, CatchUpEnd,
              tableVars, pollVars
<1>3. CASE UNCHANGED vars
  BY <1>1, <1>3 DEF vars
<1>4. QED
  BY <1>0, <1>1, <1>2, <1>3, SenderFeeds, PollFeeds DEF Next

\* What a loop of long polls is given is a feed: no answer leaves out a message it
\* could have held, for any pages, requests and order of commits.
THEOREM MessagesImplementFeed == Spec => ImplementsFeed
BY MessagesInvariant, FeedInit, FeedStep, PTL DEF Spec, ImplementsFeed, F!Spec

\* A step of Feed makes a reader miss only what it stores.
LEMMA FeedMisses ==
  ASSUME TypeOK, F!Next \/ UNCHANGED F!feedVars, NEW p \in Poll,
         NEW i \in F!Missed(p)', i \notin F!Missed(p)
  PROVE  i \notin {j \in Id : msg[j].state = "stored"} /\ i <= poll[p].offset
<1> DEFINE stored == {j \in Id : msg[j].state = "stored"}
           withdrawn == {j \in Id : msg[j].state = "stored" /\ msg[j].revoked}
           mark == [q \in Poll |-> poll[q].offset]
           given == [q \in Poll |-> poll[q].times]
<1>0. F!Id = Id /\ stored \subseteq Id
  BY DEF F!Id, Id
<1>1. mark[p] = poll[p].offset /\ mark[p] \in Nat /\ \A j \in Id : given[p][j] \in Nat /\ j \in Nat
  BY MessagesAssumption DEF TypeOK, PollState, Id
<1>2. /\ i \in stored' /\ i \notin withdrawn' /\ i <= mark'[p] /\ given'[p][i] = 0
      /\ i \notin stored \/ i \in withdrawn \/ ~(i <= mark[p]) \/ given[p][i] # 0
  BY DEF F!Missed, F!Readable
<1>3. ASSUME NEW j \in Id, F!Store(j) PROVE i \notin stored /\ i <= mark[p]
  <2>1. withdrawn' = withdrawn /\ mark' = mark /\ given' = given
    BY <1>3 DEF F!Store
  <2> HIDE DEF stored, withdrawn, mark, given
  <2>2. QED
    BY <1>2, <2>1
<1>4. ASSUME NEW j \in Id, F!Withdraw(j) PROVE FALSE
  <2>1. stored' = stored /\ withdrawn \subseteq withdrawn' /\ mark' = mark /\ given' = given
    BY <1>4 DEF F!Withdraw
  <2> HIDE DEF stored, withdrawn, mark, given
  <2>2. QED
    BY <1>2, <2>1
<1>5. ASSUME NEW q \in Poll, NEW top \in Id, F!Give(q, top) PROVE FALSE
  <2>1. /\ stored' = stored /\ withdrawn' = withdrawn
        /\ mark' = [mark EXCEPT ![q] = top]
        /\ given' = [given EXCEPT ![q] = [j \in Id |->
             IF j \in stored \ withdrawn /\ mark[q] < j /\ j <= top
             THEN given[q][j] + 1 ELSE given[q][j]]]
    BY <1>5 DEF F!Give, F!Between, F!Readable, F!Id, Id
  <2>2. DOMAIN mark = Poll /\ DOMAIN given = Poll
    OBVIOUS
  <2> HIDE DEF stored, withdrawn, mark, given
  <2>3. CASE p # q
    BY <1>2, <2>1, <2>2, <2>3
  <2>4. CASE p = q
    <3>1. i \in Id /\ i \in stored \ withdrawn /\ i <= top
      BY <1>0, <1>2, <2>1, <2>2, <2>4
    <3>2. mark[p] < i => given'[p][i] = given[p][i] + 1
      BY <2>1, <2>2, <2>4, <3>1
    <3>3. given'[p][i] \in {given[p][i], given[p][i] + 1}
      BY <2>1, <2>2, <2>4, <3>1
    <3>4. QED
      BY <1>1, <1>2, <3>1, <3>2, <3>3
  <2>5. QED
    BY <2>3, <2>4
<1>6. CASE UNCHANGED F!feedVars
  <2>1. stored' = stored /\ withdrawn' = withdrawn /\ mark' = mark /\ given' = given
    BY <1>6 DEF F!feedVars
  <2> HIDE DEF stored, withdrawn, mark, given
  <2>2. QED
    BY <1>2, <2>1
<1>7. QED
  BY <1>0, <1>1, <1>3, <1>4, <1>5, <1>6 DEF F!Next

\* A poll goes past a message it is never given only if the message is stored
\* after the offset had gone past its id (two inserts committing out of order);
\* nothing else, no page limit and no wake-up, loses one.
THEOREM PollsMissOnlyLate == Spec => F!MissedOnlyLate
<1>1. MessagesInv /\ [F!Next]_(F!feedVars) =>
        [\A p \in Poll : \A i \in F!Missed(p)' \ F!Missed(p) :
           i \notin {j \in Id : msg[j].state = "stored"}
             /\ i <= [q \in Poll |-> poll[q].offset][p]]_(F!feedVars)
  BY FeedMisses DEF MessagesInv
<1>2. QED
  BY <1>1, MessagesInvariant, MessagesImplementFeed, PTL
     DEF ImplementsFeed, F!Spec, F!MissedOnlyLate

-----------------------------------------------------------------------------
(* What a reconnected client loses *)

\* A message comes to be lacked only by leaving the hands that had it.
LEMMA LossSource ==
  ASSUME NEW c \in Client, NEW i \in Lacks(c)', i \notin Lacks(c),
         conn[c] \in {"joining", "up"}, catch'[c].since = catch[c].since,
         Visible(i), msg'[i].via = msg[i].via, msg'[i].draft = msg[i].draft,
         Arrived(c, i) => Arrived(c, i)'
  PROVE  \/ catch[c].pc = "query" /\ catch'[c].pc # "query" /\ i \notin catch'[c].list
         \/ i \in catch[c].list /\ i \notin catch'[c].list
         \/ \E s \in Sender : Owes(s, c, i) /\ ~Owes(s, c, i)'
<1>1. /\ i \in Id /\ catch[c].since \in 1..i - 1 /\ ~Coming(c, i)'
      /\ Wants(EntityOf[c], i, Reads)'
  BY DEF Lacks
<1>2. Wants(EntityOf[c], i, Reads)
  BY <1>1 DEF Wants, By
<1>3. Coming(c, i)
  BY <1>1, <1>2 DEF Lacks
<1>4. QED
  BY <1>1, <1>3 DEF Coming

\* The same for a step of one sender that touches no connection
LEMMA SenderLoses ==
  ASSUME NEW c \in Client, NEW i \in Lacks(c)', i \notin Lacks(c),
         UNCHANGED connVars, NEW s \in Sender,
         \A t \in Sender \ {s} : sender'[t] = sender[t],
         Visible(i), msg'[i].via = msg[i].via, msg'[i].draft = msg[i].draft
  PROVE  Owes(s, c, i) /\ ~Owes(s, c, i)'
<1>1. conn[c] \in {"joining", "up"} /\ catch' = catch /\ log' = log
  BY DEF Lacks, connVars
<1>2. Arrived(c, i) => Arrived(c, i)'
  BY <1>1 DEF Arrived
<1>3. \E t \in Sender : Owes(t, c, i) /\ ~Owes(t, c, i)'
  BY <1>1, <1>2, LossSource
<1>4. \A t \in Sender \ {s} : Owes(t, c, i) => Owes(t, c, i)'
  BY DEF Owes
<1>5. QED
  BY <1>3, <1>4

\* The same for a step of a connection, which leaves the senders alone
LEMMA ConnectionLoses ==
  ASSUME NEW c \in Client, NEW i \in Lacks(c)', i \notin Lacks(c),
         UNCHANGED <<tableVars, sender>>,
         conn[c] \in {"joining", "up"}, catch'[c].since = catch[c].since,
         Arrived(c, i) => Arrived(c, i)'
  PROVE  \/ catch[c].pc = "query" /\ catch'[c].pc # "query" /\ i \notin catch'[c].list
         \/ i \in catch[c].list /\ i \notin catch'[c].list
<1>1. msg' = msg /\ sender' = sender
  BY DEF tableVars
<1>2. Visible(i)
  BY <1>1 DEF Lacks, Visible
<1>3. \A s \in Sender : Owes(s, c, i) => Owes(s, c, i)'
  BY <1>1 DEF Owes
<1>4. QED
  BY <1>1, <1>2, <1>3, LossSource

\* Put keeps what is in a channel and adds the event unless the channel is full.
LEMMA PutArrives ==
  ASSUME TypeOK, NEW c \in Client, NEW v \in Event, Put(c, v), NEW d \in Client, NEW i \in Id
  PROVE  /\ Arrived(d, i) => Arrived(d, i)'
         /\ v.type = "new" /\ v.id = i => Arrived(c, i)' \/ Len(log[c]) - taken[c] = BufferCap
<1>1. /\ log \in [Client -> Seq(Event)] /\ taken[c] \in Nat /\ Len(log[c]) \in Nat
      /\ Len(log[c]) <= taken[c] + BufferCap /\ BufferCap \in Nat
  BY MessagesAssumption DEF TypeOK
<1>2. CASE log' = log
  <2>1. Arrived(d, i) => Arrived(d, i)'
    BY <1>2 DEF Arrived
  <2>2. ~(Len(log[c]) - taken[c] < BufferCap)
    <3>1. SUFFICES ASSUME Len(log[c]) - taken[c] < BufferCap PROVE FALSE
      OBVIOUS
    <3>2. log[c] = Append(log[c], v)
      BY <1>1, <1>2, <3>1 DEF Put
    <3>3. Len(Append(log[c], v)) = Len(log[c]) + 1
      BY <1>1
    <3>4. QED
      BY <1>1, <3>2, <3>3
  <2>3. Len(log[c]) - taken[c] = BufferCap
    BY <1>1, <2>2
  <2>4. QED
    BY <2>1, <2>3
<1>3. CASE log' = [log EXCEPT ![c] = Append(@, v)]
  <2>1. /\ log'[c] = Append(log[c], v) /\ Len(log'[c]) = Len(log[c]) + 1
        /\ log'[c][Len(log[c]) + 1] = v
        /\ \A a \in 1..Len(log[c]) : log'[c][a] = log[c][a]
        /\ \A e \in Client \ {c} : log'[e] = log[e]
    BY <1>1, <1>3
  <2>2. Arrived(d, i) => Arrived(d, i)'
    <3>1. CASE d = c
      <4>1. \A a \in 1..Len(log[c]) : a \in 1..Len(log'[c])
        BY <1>1, <2>1
      <4>2. QED
        BY <2>1, <3>1, <4>1 DEF Arrived
    <3>2. CASE d # c
      BY <2>1, <3>2 DEF Arrived
    <3>3. QED
      BY <3>1, <3>2
  <2>3. v.type = "new" /\ v.id = i => Arrived(c, i)'
    <3>1. Len(log[c]) + 1 \in 1..Len(log'[c])
      BY <1>1, <2>1
    <3>2. QED
      BY <2>1, <3>1 DEF Arrived
  <2>4. QED
    BY <2>2, <2>3
<1>4. QED
  BY <1>2, <1>3 DEF Put

\* A page that leaves out a message it could hold is full of smaller ones.
LEMMA PageCuts ==
  ASSUME NEW n \in Nat, NEW i \in Id, Visible(i), i > n, i \notin Updates(n)
  PROVE  Cardinality({j \in n + 1..i - 1 : Visible(j)}) >= PageSize
<1> DEFINE S == {j \in Id : Visible(j) /\ j > n}
           B == {j \in n + 1..i - 1 : Visible(j)}
<1>1. {j \in S : j < i} = B
  BY MessagesAssumption DEF Id
<1>2. ~(Cardinality({j \in S : j < i}) < PageSize)
  BY DEF Updates, Page
<1>3. IsFiniteSet(n + 1..i - 1) /\ B \subseteq n + 1..i - 1
  <2>1. n + 1 \in Int /\ i - 1 \in Int
    BY MessagesAssumption DEF Id
  <2>2. QED
    BY <2>1, FS_Interval
<1>4. Cardinality(B) \in Nat
  BY <1>3, FS_Subset, FS_CardinalityType
<1>5. ~(Cardinality(B) < PageSize)
  BY <1>1, <1>2
<1>6. QED
  <2> HIDE DEF B
  <2>1. Cardinality(B) >= PageSize
    BY <1>4, <1>5, MessagesAssumption
  <2>2. QED
    BY <2>1 DEF B

\* The ways of LossExplained
FilteredOut(c, i) ==
  \E s \in Sender :
    /\ Owes(s, c, i) /\ sender[s].pc = "snapshot" /\ sender'[s].pc = "sending"
    /\ conn[c] = "joining" \/ sender'[s].read # Reads

NotCaughtUp(c, i) ==
  /\ catch[c].pc = "query"
  /\ \/ catch'[c].pc = "none"
     \/ Cardinality({j \in catch[c].since + 1..i - 1 : Visible(j)}) >= PageSize

ChannelFull(c) == Len(log[c]) - taken[c] = BufferCap

SenderPanicked(c, i) ==
  \E s \in Sender : /\ Owes(s, c, i) /\ sender'[s] = Idle
                    /\ \E d \in sender[s].todo : conn[d] = "closed"

\* A request that stores or changes a message loses none.
LEMMA WritesLoseNothing ==
  ASSUME TypeOK, RowsInv, NEW c \in Client, NEW i \in Lacks(c)', i \notin Lacks(c),
         NEW s \in Sender,
         \/ \E d \in Draft, x \in Text : Insert(s, d, x)
         \/ Commit(s)
         \/ \E j \in Id, kind \in {"edit", "revoke"} : ReadForChange(s, j, kind)
         \/ \E x \in Text : EditWrite(s, x)
         \/ RevokeWrite(s) \/ ChangeFails(s)
  PROVE  FALSE
<1>0. /\ msg \in [Id -> {NoRow} \cup Row] /\ sender \in [Sender -> SenderState]
      /\ UNCHANGED connVars /\ \A t \in Sender \ {s} : sender'[t] = sender[t]
  BY DEF TypeOK, Insert, Commit, ReadForChange, EditWrite, RevokeWrite, ChangeFails, Go
<1>1. i \in Id /\ msg'[i].state = "stored" /\ ~msg'[i].revoked /\ ~Owes(s, c, i)'
  BY DEF Lacks, Visible, Coming
<1> DEFINE j == sender[s].event.id
<1>2. CASE \E d \in Draft, x \in Text : Insert(s, d, x)
  <2>1. PICK d \in Draft, x \in Text : Insert(s, d, x)
    BY <1>2
  <2>2. nextId \in Id /\ msg'[nextId].state = "pending" /\ sender[s].pc = "idle"
        /\ \A k \in Id \ {nextId} : msg'[k] = msg[k]
    BY <1>0, <2>1 DEF Insert
  <2>3. msg'[i] = msg[i]
    BY <1>1, <2>2
  <2>4. Owes(s, c, i)
    BY <1>0, <1>1, <2>3, SenderLoses DEF Visible
  <2>5. QED
    BY <2>2, <2>4 DEF Owes
<1>3. CASE Commit(s)
  <2>1. sender[s].pc = "insert" /\ j \in Id
    BY <1>3, SenderShape DEF Commit
  <2>2. CASE msg' = [msg EXCEPT ![j].state = "stored"] /\ Go(s, Busy("snapshot", "new", j))
    <3>1. i # j
      BY <1>0, <1>1, <2>2 DEF Go, Busy, Owes
    <3>2. msg'[i] = msg[i]
      BY <1>0, <1>1, <2>2, <3>1
    <3>3. Owes(s, c, i)
      BY <1>0, <1>1, <3>2, SenderLoses DEF Visible
    <3>4. QED
      BY <3>1, <3>3 DEF Owes
  <2>3. CASE msg' = [msg EXCEPT ![j] = NoRow]
    <3>1. i # j /\ msg'[i] = msg[i]
      BY <1>0, <1>1, <2>1, <2>3 DEF NoRow
    <3>2. Owes(s, c, i)
      BY <1>0, <1>1, <3>1, SenderLoses DEF Visible
    <3>3. QED
      BY <3>1, <3>2 DEF Owes
  <2>4. QED
    BY <1>3, <2>2, <2>3 DEF Commit
<1>4. CASE \E k \in Id, kind \in {"edit", "revoke"} : ReadForChange(s, k, kind)
  <2>1. msg' = msg /\ sender[s].pc = "idle"
    BY <1>4 DEF ReadForChange
  <2>2. Owes(s, c, i)
    BY <1>0, <1>1, <2>1, SenderLoses DEF Visible
  <2>3. QED
    BY <2>1, <2>2 DEF Owes
<1>5. CASE ChangeFails(s)
  <2>1. msg' = msg /\ sender[s].pc \in {"edit", "revoke"}
    BY <1>5 DEF ChangeFails, tableVars
  <2>2. Owes(s, c, i)
    BY <1>0, <1>1, <2>1, SenderLoses DEF Visible
  <2>3. QED
    BY <2>1, <2>2 DEF Owes
<1>6. CASE RevokeWrite(s) \/ \E x \in Text : EditWrite(s, x)
  <2>0. sender[s].pc \in {"edit", "revoke"}
    BY <1>6 DEF RevokeWrite, EditWrite
  <2>1. j \in Id /\ msg[j] \in Row
    <3>1. j \in Id /\ msg[j] # NoRow
      BY <2>0, SenderShape DEF RowsInv
    <3>2. QED
      BY <1>0, <3>1
  <2>2. /\ msg'[i].state = msg[i].state /\ msg'[i].via = msg[i].via
        /\ msg'[i].draft = msg[i].draft /\ (~msg'[i].revoked => ~msg[i].revoked)
    <3>1. CASE RevokeWrite(s)
      BY <1>0, <1>1, <2>1, <3>1 DEF RevokeWrite, Row
    <3>2. CASE \E x \in Text : EditWrite(s, x)
      BY <1>0, <1>1, <2>1, <3>2 DEF EditWrite, Row
    <3>3. QED
      BY <1>6, <3>1, <3>2
  <2>3. Owes(s, c, i)
    BY <1>0, <1>1, <2>2, SenderLoses DEF Visible
  <2>4. QED
    BY <2>0, <2>3 DEF Owes
<1>7. QED
  BY <1>2, <1>3, <1>4, <1>5, <1>6

\* A broadcast loses what it finds no subscription, no list, no room or no way for.
LEMMA BroadcastLoses ==
  ASSUME TypeOK, NEW c \in Client, NEW i \in Lacks(c)', i \notin Lacks(c),
         NEW s \in Sender,
         \/ Snapshot(s) \/ Announce(s)
         \/ \E d \in Client : SendTo(s, d) \/ SendPanics(s, d)
  PROVE  FilteredOut(c, i) \/ ChannelFull(c) \/ SenderPanicked(c, i)
<1>0. /\ sender \in [Sender -> SenderState] /\ msg' = msg /\ conn' = conn /\ catch' = catch
      /\ \A t \in Sender \ {s} : sender'[t] = sender[t]
  BY DEF TypeOK, Snapshot, Announce, SendTo, SendPanics, Go, connVars, tableVars
<1>1. /\ i \in Id /\ Visible(i) /\ conn[c] \in {"joining", "up"} /\ ~Owes(s, c, i)'
      /\ Wants(EntityOf[c], i, Reads) /\ ~Arrived(c, i)'
  BY <1>0 DEF Lacks, Visible, Coming, Wants, By
<1>2. UNCHANGED connVars => Owes(s, c, i)
  BY <1>0, <1>1, SenderLoses
<1>3. CASE Snapshot(s)
  <2>1. Owes(s, c, i) /\ sender[s].pc = "snapshot"
    BY <1>2, <1>3 DEF Snapshot
  <2>2. PICK read \in SUBSET Reads, cs \in SUBSET Client :
          /\ sender'[s] = Sending(sender[s].event, cs, read)
          /\ c \notin cs /\ conn[c] = "up" => ~Wants(EntityOf[c], sender[s].event.id, read)
    BY <1>0, <1>3, SnapshotShape DEF Go
  <2>3. sender'[s].pc = "sending" /\ sender'[s].read = read /\ c \notin cs
    BY <1>1, <2>1, <2>2 DEF Owes, Sending
  <2>4. conn[c] = "joining" \/ read # Reads
    BY <1>1, <2>1, <2>2, <2>3 DEF Owes
  <2>5. QED
    BY <2>1, <2>3, <2>4 DEF FilteredOut
<1>4. CASE Announce(s)
  <2>1. Owes(s, c, i) /\ sender[s].pc = "sending" /\ sender[s].todo = {}
    BY <1>2, <1>4 DEF Announce
  <2>2. QED
    BY <2>1 DEF Owes
<1>5. ASSUME NEW d \in Client, SendPanics(s, d) PROVE SenderPanicked(c, i)
  <2>1. Owes(s, c, i) /\ d \in sender[s].todo /\ conn[d] = "closed" /\ sender'[s] = Idle
    BY <1>0, <1>2, <1>5 DEF SendPanics, Go
  <2>2. QED
    BY <2>1 DEF SenderPanicked
<1>6. ASSUME NEW d \in Client, SendTo(s, d), ~ChannelFull(c) PROVE FALSE
  <2> DEFINE v == sender[s].event
  <2>1. /\ sender[s].pc = "sending" /\ d \in sender[s].todo /\ Put(d, v) /\ v \in Event
        /\ sender[s] \in SenderState /\ sender'[s] = [sender[s] EXCEPT !.todo = @ \ {d}]
    BY <1>0, <1>6, SenderShape DEF SendTo, Go
  <2>2. Arrived(c, i) => Arrived(c, i)'
    BY <1>1, <2>1, PutArrives
  <2>3. PICK t \in Sender : Owes(t, c, i) /\ ~Owes(t, c, i)'
    BY <1>0, <1>1, <2>2, LossSource
  <2>4. t = s
    BY <1>0, <2>3 DEF Owes
  <2>5. sender'[s].pc = "sending" /\ sender'[s].event = v /\ sender'[s].todo = sender[s].todo \ {d}
    BY <2>1 DEF SenderState, Idle
  <2>6. c = d
    BY <2>1, <2>3, <2>4, <2>5 DEF Owes
  <2>7. v.type = "new" /\ v.id = i
    BY <2>3, <2>4 DEF Owes
  <2>8. Arrived(c, i)'
    BY <1>1, <1>6, <2>1, <2>6, <2>7, PutArrives DEF ChannelFull
  <2>9. QED
    BY <1>1, <2>8
<1>7. QED
  BY <1>3, <1>4, <1>5, <1>6

\* A connection loses what its catch-up does not find or cannot put.
LEMMA ConnectionLosesOnly ==
  ASSUME TypeOK, NEW c \in Client, NEW i \in Lacks(c)', i \notin Lacks(c),
         NEW d \in Client, Connection(d)
  PROVE  NotCaughtUp(c, i) \/ ChannelFull(c)
<1>0. /\ UNCHANGED <<tableVars, sender>> /\ conn \in [Client -> {"off", "joining", "up", "closed"}]
      /\ catch \in [Client -> CatchState]
  BY DEF TypeOK, Connection, Connect, Subscribe, Close, Write, CatchUpQuery, CatchUpSend, CatchUpEnd
<1>1. /\ i \in Id /\ conn'[c] \in {"joining", "up"} /\ catch'[c].since \in 1..i - 1
      /\ Visible(i) /\ ~Arrived(c, i)' /\ catch'[c].pc # "query" /\ i \notin catch'[c].list
  BY <1>0 DEF Lacks, Visible, Coming, tableVars
<1>2. ASSUME log' = log \/ (Arrived(c, i) => Arrived(c, i)'),
             conn[c] \in {"joining", "up"}, catch'[c] = catch[c]
      PROVE  FALSE
  <2>1. Arrived(c, i) => Arrived(c, i)'
    BY <1>2 DEF Arrived
  <2>2. QED
    BY <1>0, <1>2, <2>1, ConnectionLoses
<1>3. ASSUME NEW n \in 0..MaxIds, Connect(d, n) PROVE FALSE
  <2>1. CASE c = d
    BY <1>0, <1>1, <1>3, <2>1 DEF Connect, CatchState
  <2>2. CASE c # d
    BY <1>0, <1>1, <1>2, <1>3, <2>2 DEF Connect
  <2>3. QED
    BY <2>1, <2>2
<1>4. CASE Subscribe(d)
  BY <1>0, <1>1, <1>2, <1>4 DEF Subscribe
<1>5. CASE Close(d)
  BY <1>0, <1>1, <1>2, <1>5 DEF Close
<1>6. CASE Write(d)
  BY <1>0, <1>1, <1>2, <1>6 DEF Write
<1>7. CASE CatchUpEnd(d)
  <2>1. /\ conn[c] \in {"joining", "up"} /\ log' = log /\ catch'[c].since = catch[c].since
        /\ catch[c].list = catch'[c].list /\ (catch[c].pc = "query" => catch'[c].pc = "query")
    BY <1>0, <1>1, <1>7 DEF CatchUpEnd, CatchUp, CatchState
  <2>2. Arrived(c, i) => Arrived(c, i)'
    BY <2>1 DEF Arrived
  <2>3. QED
    BY <1>0, <2>1, <2>2, ConnectionLoses
<1>8. CASE CatchUpQuery(d)
  <2>1. conn[c] \in {"joining", "up"} /\ log' = log
    BY <1>1, <1>8 DEF CatchUpQuery
  <2>2. catch'[c].since = catch[c].since /\ (c # d => catch'[c] = catch[c])
    <3>1. PICK pc, S : catch' = [catch EXCEPT ![d] = [@ EXCEPT !.pc = pc, !.list = S]]
      BY <1>8 DEF CatchUpQuery, CatchUp
    <3>2. QED
      BY <1>0, <3>1 DEF CatchState
  <2>3. CASE c = d
    <3>1. catch[c].pc = "query" /\ catch[c].since \in Nat /\ i > catch[c].since
      BY <1>0, <1>1, <1>8, <2>2, <2>3, MessagesAssumption DEF CatchUpQuery, CatchState, Id
    <3>2. CASE CatchUp(c, "sending", Updates(catch[c].since))
      <4>1. i \notin Updates(catch[c].since)
        BY <1>0, <1>1, <3>2 DEF CatchUp, CatchState
      <4>2. QED
        BY <1>1, <3>1, <4>1, PageCuts DEF NotCaughtUp
    <3>3. CASE CatchUp(c, "none", {})
      BY <1>0, <3>1, <3>3 DEF CatchUp, CatchState, NotCaughtUp
    <3>4. QED
      BY <1>8, <2>3, <3>2, <3>3 DEF CatchUpQuery
  <2>4. CASE c # d
    BY <1>2, <2>1, <2>2, <2>4
  <2>5. QED
    BY <2>3, <2>4
<1>9. ASSUME NEW j \in Id, CatchUpSend(d, j) PROVE ChannelFull(c)
  <2> DEFINE v == [type |-> "new", id |-> j, live |-> FALSE]
  <2>1. v \in Event /\ v.type = "new" /\ v.id = j
    BY DEF Event
  <2>2. /\ conn[c] \in {"joining", "up"} /\ conn' = conn
        /\ Put(d, v) \/ (conn[d] = "closed" /\ log' = log)
        /\ catch' = [catch EXCEPT ![d] = [@ EXCEPT !.pc = "sending", !.list = catch[d].list \ {j}]]
        /\ catch[d].pc = "sending"
    BY <1>1, <1>9 DEF CatchUpSend, CatchUp
  <2> HIDE DEF v
  <2>3. Arrived(c, i) => Arrived(c, i)'
    <3>1. CASE Put(d, v)
      BY <1>1, <2>1, <3>1, PutArrives
    <3>2. CASE log' = log
      BY <3>2 DEF Arrived
    <3>3. QED
      BY <2>2, <3>1, <3>2
  <2>4. CASE c # d
    BY <1>0, <1>2, <2>2, <2>3, <2>4
  <2>5. CASE c = d
    <3>1. /\ catch'[c].since = catch[c].since /\ catch'[c].list = catch[c].list \ {j}
          /\ catch[c].pc # "query"
      BY <1>0, <2>2, <2>5 DEF CatchState
    <3>2. i = j
      BY <1>0, <2>2, <2>3, <3>1, ConnectionLoses
    <3>3. Put(c, v)
      BY <1>1, <2>2, <2>5
    <3>4. QED
      BY <1>1, <2>1, <3>2, <3>3, PutArrives DEF ChannelFull
  <2>6. QED
    BY <2>4, <2>5
<1>10. QED
  BY <1>3, <1>4, <1>5, <1>6, <1>7, <1>8, <1>9 DEF Connection

LEMMA LossStep ==
  ASSUME TypeOK, RowsInv, [Next]_vars, NEW c \in Client, NEW i \in Lacks(c)' \ Lacks(c)
  PROVE  FilteredOut(c, i) \/ NotCaughtUp(c, i) \/ ChannelFull(c) \/ SenderPanicked(c, i)
<1>1. CASE UNCHANGED <<msg, sender, conn, log, catch>>
  <2>1. Lacks(c)' = Lacks(c)
    BY <1>1 DEF Lacks, Visible, Wants, By, Coming, Arrived, Owes
  <2>2. QED
    BY <2>1
<1>2. ASSUME NEW s \in Sender, Sends(s)
      PROVE  FilteredOut(c, i) \/ ChannelFull(c) \/ SenderPanicked(c, i)
  BY <1>2, WritesLoseNothing, BroadcastLoses DEF Sends
<1>3. ASSUME NEW d \in Client, Connection(d) PROVE NotCaughtUp(c, i) \/ ChannelFull(c)
  BY <1>3, ConnectionLosesOnly
<1>4. ASSUME NEW p \in Poll, Polls(p) PROVE UNCHANGED <<msg, sender, conn, log, catch>>
  BY <1>4 DEF Polls, PollQuery, PollRegister, PollWake, PollGivesUp, PollUnregister,
              tableVars, connVars
<1>5. CASE UNCHANGED vars
  BY <1>1, <1>5 DEF vars
<1>6. QED
  BY <1>1, <1>2, <1>3, <1>4, <1>5 DEF Next

\* A client that reconnects loses a message behind the one it had seen in the five
\* ways of LossExplained and in no other, for any number of senders, connections
\* and messages, any channel and any page: HandleWS, Hub.Run, sendCatchUpMessages
\* and BroadcastMessage together.
THEOREM LossesExplained == Spec => LossExplained
<1>1. MessagesInv /\ [Next]_vars =>
        [\A c \in Client : \A i \in Lacks(c)' \ Lacks(c) :
           \/ \E s \in Sender :
                /\ Owes(s, c, i) /\ sender[s].pc = "snapshot" /\ sender'[s].pc = "sending"
                /\ conn[c] = "joining" \/ sender'[s].read # Reads
           \/ /\ catch[c].pc = "query"
              /\ \/ catch'[c].pc = "none"
                 \/ Cardinality({j \in catch[c].since + 1..i - 1 : Visible(j)}) >= PageSize
           \/ Len(log[c]) - taken[c] = BufferCap
           \/ \E s \in Sender : /\ Owes(s, c, i) /\ sender'[s] = Idle
                              /\ \E d \in sender[s].todo : conn[d] = "closed"]_vars
  BY LossStep DEF MessagesInv, FilteredOut, NotCaughtUp, ChannelFull, SenderPanicked
<1>2. QED
  BY <1>1, MessagesInvariant, PTL DEF Spec, LossExplained
=============================================================================
