------------------------------ MODULE Messages ------------------------------
(***************************************************************************)
(* The messages of one conversation (handler/message.go, ws/hub.go,        *)
(* handler/updates.go, handler/ws.go): sending, editing and revoking, the  *)
(* live delivery to connections, the catch-up of a reconnecting one, and   *)
(* long polling.                                                           *)
(*                                                                         *)
(* A sender is the goroutine of a REST request or of a connection's        *)
(* ReadPump; it handles one request after another. Membership is fixed     *)
(* here; Hub and Membership change it. The time windows of an edit and of  *)
(* a revocation only refuse more and are left out.                         *)
(*                                                                         *)
(* An operator named X_Mutant is X with a plausible slip in it. No action  *)
(* uses it; it shows which property would notice.                          *)
(***************************************************************************)
EXTENDS Naturals, Sequences, FiniteSets

CONSTANTS
  Entity,     \* the participants
  Person,     \* those that are human users
  Mode,       \* participants.subscription_mode
  Disabled,   \* entities with status "disabled"
  Direct,     \* conv_type is "direct"
  Sender,     \* goroutines that handle senders' requests
  SenderOf,   \* the entity a sender authenticated as
  Client,     \* WebSocket connections
  EntityOf,   \* the entity of a connection
  Poll,       \* long-polling loops, each calling GET /updates again and again
  PollerOf,   \* the entity of a loop
  Draft,      \* what may be sent: content type and who it is addressed to
  Text,       \* contents of the layers
  BufferCap,  \* capacity of a connection's send channel (256)
  PageSize,   \* LIMIT of GetUpdatesForEntity (200)
  Failures,   \* database statements may fail
  MaxIds,     \* bound: messages
  MaxChanges  \* bound: edits and revocations

Modes == {"subscribe_all", "mention_only", "mention_with_context",
          "subscribe_digest"}
DraftType == [content : {"text", "system", "task_handover"},
              assigned : SUBSET Entity,   \* AssignedEntityIDs
              handover : SUBSET Entity]   \* assign_to of a task_handover

ASSUME MessagesAssumption ==
  /\ Person \subseteq Entity /\ Disabled \subseteq Entity
  /\ Mode \in [Entity -> Modes]
  /\ Direct \in BOOLEAN
  /\ SenderOf \in [Sender -> Entity]
  /\ EntityOf \in [Client -> Entity]
  /\ PollerOf \in [Poll -> Entity]
  /\ Draft \subseteq DraftType
  /\ BufferCap \in Nat \ {0} /\ PageSize \in Nat \ {0}
  /\ Failures \in BOOLEAN /\ MaxIds \in Nat \ {0} /\ MaxChanges \in Nat

VARIABLES
  nextId,    \* the sequence behind messages.id
  msg,       \* the messages table
  sender,    \* the senders
  changes,   \* edits and revocations so far
  conn,      \* connections: not open, handed to Hub.Run, in h.convClients, closed
  log,       \* everything put in a connection's send channel, in order
  taken,     \* how much of it WritePump has written
  catch,     \* sendCatchUpMessages of a connection
  waiters,   \* h.waiters
  poll,      \* the long polls
  announced  \* messages whose waiters have been notified (history)

tableVars == <<nextId, msg, changes>>
connVars  == <<conn, log, taken, catch>>
pollVars  == <<waiters, poll, announced>>
vars == <<nextId, msg, sender, changes, conn, log, taken, catch, waiters, poll,
          announced>>

Id == 1..MaxIds
Event == [type : {"new", "updated", "revoked"}, id : Id, live : BOOLEAN]
NoRow == [state |-> "none"]
\* "pending" has taken its id but is not committed
Row == [state : {"pending", "stored"}, revoked : BOOLEAN, via : Sender,
        draft : DraftType, text : Text]

By(i) == SenderOf[msg[i].via]
Visible(i) == msg[i].state = "stored" /\ ~msg[i].revoked

\* The first PageSize of a set of ids in ascending order
Page_Mutant(S) == {i \in S : Cardinality({j \in S : j > i}) < PageSize}

Page(S) == {i \in S : Cardinality({j \in S : j < i}) < PageSize}

\* GetUpdatesForEntity: id > after, revoked_at IS NULL, ORDER BY id, LIMIT
Updates(after) == Page({i \in Id : Visible(i) /\ i > after})

\* What BroadcastMessage reads before it filters. The conversation only tells
\* whether it is direct: where it is not, an unread one makes no difference.
Reads == {"participants"} \cup (IF Direct THEN {"conversation"} ELSE {})

\* BroadcastMessage: whether a connection of e is sent message i when this much
\* could be read. In an empty participant list nobody is disabled or a user, and
\* everybody's mode is the default.
Wants(e, i, read) ==
  LET d == msg[i].draft
      handedOver == d.content = "task_handover" /\ d.handover # {}
      listed == "participants" \in read
      mode == IF listed THEN Mode[e] ELSE "mention_only"
  IN \/ e = By(i)
     \/ listed /\ e \notin Disabled /\ e \in Person
     \/ /\ ~(listed /\ e \in Disabled) /\ d.content # "system"
        /\ \/ handedOver /\ e \in d.handover
           \/ ~handedOver /\ "conversation" \in read
           \/ ~handedOver /\ mode = "subscribe_all"
           \/ /\ ~handedOver /\ e \in d.assigned
              /\ mode \in {"mention_only", "mention_with_context"}

Idle == [pc |-> "idle"]
Busy(pc, type, i) ==
  [pc |-> pc, event |-> [type |-> type, id |-> i, live |-> TRUE], todo |-> {},
   read |-> {}]
Sending(v, cs, read) == [pc |-> "sending", event |-> v, todo |-> cs, read |-> read]
SenderState == {Idle} \cup
  [pc : {"insert", "edit", "revoke", "snapshot", "sending"}, event : Event,
   todo : SUBSET Client, read : SUBSET Reads]
CatchState == [pc : {"none", "query", "sending"}, since : 0..MaxIds,
               list : SUBSET Id]
PollState == [pc : {"ready", "register", "waiting", "unregister"},
              offset : 0..MaxIds,
              token : BOOLEAN,           \* the channel of capacity 1 is full
              times : [Id -> Nat],       \* answers that held a message (history)
              before : SUBSET Id]        \* announced when it registered (history)

TypeOK ==
  /\ nextId \in 1..MaxIds + 1
  /\ msg \in [Id -> {NoRow} \cup Row]
  /\ sender \in [Sender -> SenderState]
  /\ changes \in Nat
  /\ conn \in [Client -> {"off", "joining", "up", "closed"}]
  /\ log \in [Client -> Seq(Event)]
  /\ taken \in [Client -> Nat]
  /\ \A c \in Client : taken[c] <= Len(log[c]) /\ Len(log[c]) <= taken[c] + BufferCap
  /\ catch \in [Client -> CatchState]
  /\ waiters \in [Entity -> SUBSET Poll]
  /\ poll \in [Poll -> PollState]
  /\ announced \subseteq Id

Init ==
  /\ nextId = 1
  /\ msg = [i \in Id |-> NoRow]
  /\ sender = [s \in Sender |-> Idle]
  /\ changes = 0
  /\ conn = [c \in Client |-> "off"]
  /\ log = [c \in Client |-> <<>>]
  /\ taken = [c \in Client |-> 0]
  /\ catch = [c \in Client |-> [pc |-> "none", since |-> 0, list |-> {}]]
  /\ waiters = [e \in Entity |-> {}]
  /\ poll = [p \in Poll |-> [pc |-> "ready", offset |-> 0, token |-> FALSE,
                             times |-> [i \in Id |-> 0], before |-> {}]]
  /\ announced = {}
-----------------------------------------------------------------------------
(* Senders: HandleSendMessage and handleSend, HandleEditMessage,           *)
(* HandleRevokeMessage                                                     *)

Go(s, state) == sender' = [sender EXCEPT ![s] = state]

\* CreateMessage: the INSERT takes the next id of the sequence ...
Insert_Mutant(s, d, x) ==
  \E i \in {j \in Id : msg[j] = NoRow} :
    /\ sender[s].pc = "idle"
    /\ msg' = [msg EXCEPT ![i] = [state |-> "pending", revoked |-> FALSE,
                                  via |-> s, draft |-> d, text |-> x]]
    /\ Go(s, Busy("insert", "new", i))
    /\ UNCHANGED <<nextId, changes, connVars, pollVars>>

Insert(s, d, x) ==
  /\ sender[s].pc = "idle"
  /\ nextId \in Id
  /\ nextId' = nextId + 1
  /\ msg' = [msg EXCEPT ![nextId] = [state |-> "pending", revoked |-> FALSE,
                                     via |-> s, draft |-> d, text |-> x]]
  /\ Go(s, Busy("insert", "new", nextId))
  /\ UNCHANGED <<changes, connVars, pollVars>>

\* ... and commits, or fails and leaves a gap
Commit(s) ==
  LET i == sender[s].event.id IN
  /\ sender[s].pc = "insert"
  /\ \/ /\ msg' = [msg EXCEPT ![i].state = "stored"]
        /\ Go(s, Busy("snapshot", "new", i))
     \/ /\ Failures
        /\ msg' = [msg EXCEPT ![i] = NoRow]
        /\ Go(s, Idle)
  /\ UNCHANGED <<nextId, changes, connVars, pollVars>>

\* GetMessageByID and the tests on what it returned
ReadForChange(s, i, kind) ==
  /\ sender[s].pc = "idle"
  /\ changes < MaxChanges
  /\ Visible(i) /\ By(i) = SenderOf[s]
  /\ changes' = changes + 1
  /\ Go(s, Busy(kind, IF kind = "edit" THEN "updated" ELSE "revoked", i))
  /\ UNCHANGED <<nextId, msg, connVars, pollVars>>

\* UpdateMessage writes the layers only, whatever has happened since the read
EditWrite_Mutant(s, x) ==
  LET i == sender[s].event.id IN
  /\ sender[s].pc = "edit"
  /\ msg' = [msg EXCEPT ![i].text = x, ![i].revoked = FALSE]
  /\ Go(s, Busy("snapshot", "updated", i))
  /\ UNCHANGED <<nextId, changes, connVars, pollVars>>

EditWrite(s, x) ==
  LET i == sender[s].event.id IN
  /\ sender[s].pc = "edit"
  /\ msg' = [msg EXCEPT ![i].text = x]
  /\ Go(s, Busy("snapshot", "updated", i))
  /\ UNCHANGED <<nextId, changes, connVars, pollVars>>

\* RevokeMessage; the event follows even if the row was revoked before
RevokeWrite(s) ==
  LET i == sender[s].event.id IN
  /\ sender[s].pc = "revoke"
  /\ msg' = [msg EXCEPT ![i].revoked = TRUE]
  /\ Go(s, Busy("snapshot", "revoked", i))
  /\ UNCHANGED <<nextId, changes, connVars, pollVars>>

ChangeFails(s) ==
  /\ Failures
  /\ sender[s].pc \in {"edit", "revoke"}
  /\ Go(s, Idle)
  /\ UNCHANGED <<tableVars, connVars, pollVars>>

\* The reads of BroadcastMessage, whose failures are only logged;
\* copyConvClients; the filter. BroadcastEvent reads and filters nothing.
Snapshot_Mutant(s) ==
  LET v == sender[s].event IN
  /\ sender[s].pc = "snapshot"
  /\ \E read \in SUBSET Reads :
       /\ read = Reads \/ (v.type = "new" /\ Failures)
       /\ Go(s, Sending(v, {c \in Client :
                             /\ conn[c] = "up" /\ catch[c].pc = "none"
                             /\ v.type = "new" => Wants(EntityOf[c], v.id, read)}, read))
  /\ UNCHANGED <<tableVars, connVars, pollVars>>

Snapshot(s) ==
  LET v == sender[s].event IN
  /\ sender[s].pc = "snapshot"
  /\ \E read \in SUBSET Reads :
       /\ read = Reads \/ (v.type = "new" /\ Failures)
       /\ Go(s, Sending(v, {c \in Client :
                             /\ conn[c] = "up"
                             /\ v.type = "new" => Wants(EntityOf[c], v.id, read)}, read))
  /\ UNCHANGED <<tableVars, connVars, pollVars>>

\* The buffered send: dropped when the channel is full
Put_Mutant(c, v) == log' = [log EXCEPT ![c] = Append(@, v)]

Put(c, v) ==
  log' = IF Len(log[c]) - taken[c] < BufferCap
           THEN [log EXCEPT ![c] = Append(@, v)] ELSE log

SendTo(s, c) ==
  /\ sender[s].pc = "sending"
  /\ c \in sender[s].todo
  /\ conn[c] = "up"
  /\ Put(c, sender[s].event)
  /\ Go(s, [sender[s] EXCEPT !.todo = @ \ {c}])
  /\ UNCHANGED <<tableVars, conn, taken, catch, pollVars>>

\* A connection of the snapshot that Hub.Run has closed since: the send
\* panics, and with it the request; the others and the waiters get nothing.
SendPanics(s, c) ==
  /\ sender[s].pc = "sending"
  /\ c \in sender[s].todo
  /\ conn[c] = "closed"
  /\ Go(s, Idle)
  /\ UNCHANGED <<tableVars, connVars, pollVars>>

\* notifyParticipantWaitersWithList: a non-blocking send to every waiter of
\* every participant but the sender, in the list that was read
Woken_Mutant(i) ==
  {p \in Poll : /\ PollerOf[p] # By(i) /\ p \in waiters[PollerOf[p]]
                /\ p = CHOOSE q \in waiters[PollerOf[p]] : TRUE}

Woken(i) == {p \in Poll : PollerOf[p] # By(i) /\ p \in waiters[PollerOf[p]]}

Announce(s) ==
  LET v == sender[s].event IN
  /\ sender[s].pc = "sending" /\ sender[s].todo = {}
  /\ Go(s, Idle)
  /\ \/ /\ v.type = "new" /\ "participants" \in sender[s].read
        /\ poll' = [p \in Poll |-> [poll[p] EXCEPT !.token = @ \/ p \in Woken(v.id)]]
        /\ announced' = announced \cup {v.id}
     \/ /\ ~(v.type = "new" /\ "participants" \in sender[s].read)
        /\ UNCHANGED <<poll, announced>>
  /\ UNCHANGED <<tableVars, connVars, waiters>>
-----------------------------------------------------------------------------
(* Connections: HandleWS, Hub.Run, WritePump, sendCatchUpMessages *)

\* A client that has seen message n, or says it has seen none
Connect(c, n) ==
  /\ conn[c] = "off"
  /\ n = 0 \/ (n \in Id /\ msg[n].state = "stored")
  /\ conn' = [conn EXCEPT ![c] = "joining"]
  /\ catch' = [catch EXCEPT ![c] = [pc |-> IF n > 0 THEN "query" ELSE "none",
                                    since |-> n, list |-> {}]]
  /\ UNCHANGED <<tableVars, sender, log, taken, pollVars>>

\* Hub.Run subscribes it, and may close it later
Subscribe(c) ==
  /\ conn[c] = "joining"
  /\ conn' = [conn EXCEPT ![c] = "up"]
  /\ UNCHANGED <<tableVars, sender, log, taken, catch, pollVars>>

Close(c) ==
  /\ conn[c] = "up"
  /\ conn' = [conn EXCEPT ![c] = "closed"]
  /\ UNCHANGED <<tableVars, sender, log, taken, catch, pollVars>>

Write(c) ==
  /\ taken[c] < Len(log[c])
  /\ taken' = [taken EXCEPT ![c] = @ + 1]
  /\ UNCHANGED <<tableVars, sender, conn, log, catch, pollVars>>

CatchUp(c, pc, S) == catch' = [catch EXCEPT ![c] = [@ EXCEPT !.pc = pc, !.list = S]]

\* The query, which may fail
CatchUpQuery(c) ==
  /\ catch[c].pc = "query"
  /\ \/ CatchUp(c, "sending", Updates(catch[c].since))
     \/ Failures /\ CatchUp(c, "none", {})
  /\ UNCHANGED <<tableVars, sender, conn, log, taken, pollVars>>

\* SendJSON, in the order of the query; it recovers from a closed channel
CatchUpSend(c, i) ==
  /\ catch[c].pc = "sending"
  /\ i \in catch[c].list /\ \A j \in catch[c].list : i <= j
  /\ CatchUp(c, "sending", catch[c].list \ {i})
  /\ \/ conn[c] # "closed" /\ Put(c, [type |-> "new", id |-> i, live |-> FALSE])
     \/ conn[c] = "closed" /\ UNCHANGED log
  /\ UNCHANGED <<tableVars, sender, conn, taken, pollVars>>

CatchUpEnd(c) ==
  /\ catch[c].pc = "sending" /\ catch[c].list = {}
  /\ CatchUp(c, "none", {})
  /\ UNCHANGED <<tableVars, sender, conn, log, taken, pollVars>>
-----------------------------------------------------------------------------
(* Long polling: HandleUpdates. A loop asks for what follows the largest id *)
(* it has been given.                                                       *)

Answer(p, pc, S) ==
  \E top \in S :
    /\ \A i \in S : i <= top
    /\ poll' = [poll EXCEPT ![p].pc = pc, ![p].offset = top, ![p].token = FALSE,
                            ![p].times = [i \in Id |-> IF i \in S THEN @[i] + 1
                                                                  ELSE @[i]]]

\* The first query answers at once or decides to wait
PollQuery(p) ==
  LET S == Updates(poll[p].offset) IN
  /\ poll[p].pc = "ready"
  /\ \/ Answer(p, "ready", S)
     \/ S = {} /\ poll' = [poll EXCEPT ![p].pc = "register"]
  /\ UNCHANGED <<tableVars, sender, connVars, waiters, announced>>

\* RegisterWaiter
PollRegister(p) ==
  /\ poll[p].pc = "register"
  /\ waiters' = [waiters EXCEPT ![PollerOf[p]] = @ \cup {p}]
  /\ poll' = [poll EXCEPT ![p] = [@ EXCEPT !.pc = "waiting", !.token = FALSE,
                                           !.before = announced]]
  /\ UNCHANGED <<tableVars, sender, connVars, announced>>

\* case <-ch: the second query answers, be it with nothing
PollWake(p) ==
  LET S == Updates(poll[p].offset) IN
  /\ poll[p].pc = "waiting" /\ poll[p].token
  /\ \/ Answer(p, "unregister", S)
     \/ S = {} /\ poll' = [poll EXCEPT ![p] = [@ EXCEPT !.pc = "unregister", !.token = FALSE]]
  /\ UNCHANGED <<tableVars, sender, connVars, waiters, announced>>

\* The timeout, the client's disconnect, or a failed second query
PollGivesUp_Mutant(p) ==
  /\ poll[p].pc = "waiting"
  /\ poll' = [poll EXCEPT ![p].pc = "ready"]
  /\ UNCHANGED <<tableVars, sender, connVars, waiters, announced>>

PollGivesUp(p) ==
  /\ poll[p].pc = "waiting"
  /\ poll' = [poll EXCEPT ![p].pc = "unregister"]
  /\ UNCHANGED <<tableVars, sender, connVars, waiters, announced>>

\* The deferred UnregisterWaiter
PollUnregister(p) ==
  /\ poll[p].pc = "unregister"
  /\ waiters' = [waiters EXCEPT ![PollerOf[p]] = @ \ {p}]
  /\ poll' = [poll EXCEPT ![p] = [@ EXCEPT !.pc = "ready", !.token = FALSE,
                                           !.before = {}]]
  /\ UNCHANGED <<tableVars, sender, connVars, announced>>
-----------------------------------------------------------------------------
Sends(s) ==
  \/ \E d \in Draft, x \in Text : Insert(s, d, x)
  \/ Commit(s)
  \/ \E i \in Id, kind \in {"edit", "revoke"} : ReadForChange(s, i, kind)
  \/ \E x \in Text : EditWrite(s, x)
  \/ RevokeWrite(s) \/ ChangeFails(s) \/ Snapshot(s)
  \/ \E c \in Client : SendTo(s, c) \/ SendPanics(s, c)
  \/ Announce(s)

Connection(c) ==
  \/ \E n \in 0..MaxIds : Connect(c, n)
  \/ Subscribe(c) \/ Close(c) \/ Write(c) \/ CatchUpQuery(c)
  \/ \E i \in Id : CatchUpSend(c, i)
  \/ CatchUpEnd(c)

Polls(p) ==
  PollQuery(p) \/ PollRegister(p) \/ PollWake(p) \/ PollGivesUp(p) \/ PollUnregister(p)

Next ==
  \/ \E s \in Sender : Sends(s)
  \/ \E c \in Client : Connection(c)
  \/ \E p \in Poll : Polls(p)

Spec == Init /\ [][Next]_vars
-----------------------------------------------------------------------------
\* What one goroutine sends one after the other, its requests being handled in
\* that order, no connection is ever live-delivered in another order, whatever
\* other senders, full buffers and closing connections do in between.
SenderOrder ==
  \A c \in Client : \A a, b \in 1..Len(log[c]) :
    LET u == log[c][a]
        v == log[c][b]
    IN (/\ a < b /\ u.type = "new" /\ v.type = "new" /\ u.live /\ v.live
        /\ msg[u.id].via = msg[v.id].via)
         => u.id < v.id

\* A revoked message stays revoked: an edit that read it before the revocation
\* and writes after it does not bring it back.
RevokedStays ==
  [][\A i \in Id : (msg[i] # NoRow /\ msg[i].revoked) => msg'[i].revoked]_vars

\* h.waiters holds exactly the polls between RegisterWaiter and the deferred
\* UnregisterWaiter: none is left behind by a timeout, an error or a disconnect.
WaitersMatch ==
  \A e \in Entity : waiters[e] =
    {p \in Poll : PollerOf[p] = e /\ poll[p].pc \in {"waiting", "unregister"}}

\* A poll sleeps past a message it could answer with only if the message is its
\* own entity's, its broadcast has not notified the waiters (not yet; or never,
\* because it panicked or could not read the participants), or it did so between
\* the poll's first query and RegisterWaiter. No other wake-up is lost.
SleepsOnlyWhen ==
  \A p \in Poll : poll[p].pc = "waiting" /\ ~poll[p].token =>
    \A i \in Updates(poll[p].offset) :
      By(i) = PollerOf[p] \/ i \notin announced \/ i \in poll[p].before

\* What HandleUpdates has given a loop and how far it is, in the terms of Feed
F == INSTANCE Feed WITH
       Reader    <- Poll,
       stored    <- {j \in Id : msg[j].state = "stored"},
       withdrawn <- {j \in Id : msg[j].state = "stored" /\ msg[j].revoked},
       mark      <- [q \in Poll |-> poll[q].offset],
       given     <- [q \in Poll |-> poll[q].times]

\* Long polling implements Feed: each answer holds everything visible behind the
\* loop's offset up to the largest id of the answer, though a page is cut off at
\* PageSize and rows are stored in another order than their ids.
ImplementsFeed == F!Spec
-----------------------------------------------------------------------------
\* Message i has been put in the channel of connection c, or is in the hands of
\* a sender or of the catch-up
Arrived(c, i) == \E a \in 1..Len(log[c]) : log[c][a].type = "new" /\ log[c][a].id = i

Owes(s, c, i) ==
  /\ sender[s].pc \in {"insert", "snapshot", "sending"}
  /\ sender[s].event = [type |-> "new", id |-> i, live |-> TRUE]
  /\ sender[s].pc = "sending" => c \in sender[s].todo

Coming(c, i) ==
  \/ Arrived(c, i) \/ catch[c].pc = "query" \/ i \in catch[c].list
  \/ \E s \in Sender : Owes(s, c, i)

\* What a reconnected client is to be sent, behind the message it had seen, and
\* will not be
Lacks(c) ==
  {i \in Id : /\ conn[c] \in {"joining", "up"} /\ catch[c].since \in 1..i - 1
              /\ Visible(i) /\ Wants(EntityOf[c], i, Reads) /\ ~Coming(c, i)}

\* A reconnected client loses a message in five ways only: its sender listed the
\* connections after the catch-up had asked and before Hub.Run subscribed this
\* one; its sender could not read the conversation or the participants and
\* filtered without them; the catch-up failed, or its page was full of smaller
\* ids; the channel was full; or the sender panicked on another connection,
\* closed meanwhile. Edits, revocations, commits that overtake one another and a
\* catch-up that runs beside the live delivery are no other. (An id below the one
\* it had seen that is stored later is not asked for, as in Feed.)
LossExplained ==
  [][\A c \in Client : \A i \in Lacks(c)' \ Lacks(c) :
       \/ \E s \in Sender :
            /\ Owes(s, c, i) /\ sender[s].pc = "snapshot" /\ sender'[s].pc = "sending"
            /\ conn[c] = "joining" \/ sender'[s].read # Reads
       \/ /\ catch[c].pc = "query"
          /\ \/ catch'[c].pc = "none"
             \/ Cardinality({j \in catch[c].since + 1..i - 1 : Visible(j)}) >= PageSize
       \/ Len(log[c]) - taken[c] = BufferCap
       \/ \E s \in Sender : /\ Owes(s, c, i) /\ sender'[s] = Idle
                          /\ \E d \in sender[s].todo : conn[d] = "closed"]_vars

-----------------------------------------------------------------------------
\* "No message loss" across a reconnect: once a connection is up, its catch-up
\* is over and no request is under way, it has been sent every message after the
\* one it said it had seen that it is to be sent.
ReconnectLosesNothing ==
  \A c \in Client :
    (/\ conn[c] = "up" /\ catch[c].since > 0 /\ catch[c].pc = "none"
     /\ \A s \in Sender : sender[s].pc = "idle")
      => \A i \in Id :
           Visible(i) /\ i > catch[c].since /\ Wants(EntityOf[c], i, Reads) => Arrived(c, i)
=============================================================================
